---- MODULE Spec2Model ----
(***************************************************************************)
(* Model of the ADT library (src/adts).  This part models BinTree.h: the   *)
(* binary tree with manual reference counting.  The heap is a store of     *)
(* Node objects indexed by address, a BinTree object ("handle") is a slot  *)
(* holding its _root pointer.                                              *)
(***************************************************************************)
EXTENDS Integers, Sequences, FiniteSets, TLC

\* ------------------------------------------------------------------ bounds
MaxNodes == 3       \* addresses the allocator can hand out
MaxHandles == 3     \* BinTree objects that can be alive at once
MaxElem == 2        \* elements given to the constructors are 1..MaxElem
MaxTreeElem == 3    \* elements of the trees handed to the observers
MaxInput == 7       \* tokens waiting on std::cin when a reading program starts
MaxCells == 4       \* addresses for the nodes of a linked container
MaxLen == 20        \* elements pushed on a Stack (two doublings of its array)
MaxVaried == 3      \* stack depth below which any element is pushed
MaxVal == 1         \* values stored in a HashMap are 0..MaxVal
MaxKey == 4         \* keys of a TreeMap and elements of a TreeSet are 1..MaxKey
MaxCopyLen == 3     \* elements (entries) held by an object that is copied
MaxCopyCells == 6   \* addresses for the nodes of an object and of its copy
MaxSingleLen == 2   \* elements pushed on a ListLinkedSingle that is copied
MaxSingleCells == 7 \* addresses for the nodes of a ListLinkedSingle and of its copy
MaxEraseKey == 5    \* keys of the search trees that nodes are erased from
MaxEditLen == 3     \* elements of the List that insert and erase work on

nullptr == 0

Addrs == 1..MaxNodes
Handles == 1..MaxHandles
Elems == 1..MaxElem
TreeElems == 1..MaxTreeElem

VARIABLES
    heap,    \* heap[n]: the Node at address n (alloc: between new and delete)
    fault,   \* "none", or the way the program went wrong
    live,    \* live[h]: BinTree object h is constructed and not destroyed
    _root,   \* _root[h]: BinTree::_root of object h
    last,    \* the call that was executed last: its name, receiver and arguments
    ret,     \* what that call returned or threw
    cin,     \* std::cin: the tokens not yet extracted and the stream's failbit
    smart,   \* the BinTreeSmart counterparts of the BinTree objects: their
             \* nodes (heap), their _root links and the fault flag of that program
    stack,   \* a Stack: _data, _max, _size
    lstack,  \* a LinkedListStack: its nodes, _top, _size
    queue,   \* a Queue: its nodes, _first, _last, _size
    list,    \* a List: its nodes, _first, _last, _size
    slist,   \* a ListLinkedSingle: its nodes, _head, _tail
    map,     \* a HashMap: its nodes, _bins, _binCount, _entryCount
    tmap,    \* a TreeMap: its nodes, _root, _size
    tset,    \* a TreeSet: its nodes, _root
    iter,    \* an iterator of the container: _current and, by class, _ancestors or _idx
    twin     \* a second container of the same class, in the same memory

\* The containers other than the trees; each has the field alive: the object
\* is constructed and not destroyed.
rest == <<tmap, tset, iter, twin>>

peers == <<stack, lstack, queue, list, slist, map, rest>>

vars == <<heap, fault, live, _root, last, ret, cin, smart, peers>>

\* A Node whose memory is not allocated: its fields are indeterminate.
NoNode == [alloc |-> FALSE, _elem |-> 0, _left |-> nullptr, _right |-> nullptr, _refs |-> 0]

\* The memory the operations below thread through: the nodes and the fault flag.
Mem(hp, f) == [heap |-> hp, fault |-> f]

\* A step of code that touches the node at n: undefined when n is not allocated.
Touch(m, n, next) ==
    IF m.fault # "none" THEN m
    ELSE IF ~m.heap[n].alloc THEN Mem(m.heap, "use_after_free")
    ELSE next

\* ------------------------------------------------------------------ Node
\* void addRef() { assert(_refs >= 0); _refs++; }
addRef(m, n) ==
    Touch(m, n,
        IF m.heap[n]._refs >= 0
        THEN Mem([m.heap EXCEPT ![n]._refs = @ + 1], m.fault)
        ELSE Mem(m.heap, "assert"))

\* void rmRef() { assert(_refs > 0); _refs--; }
rmRef(m, n) ==
    Touch(m, n,
        IF m.heap[n]._refs > 0
        THEN Mem([m.heap EXCEPT ![n]._refs = @ - 1], m.fault)
        ELSE Mem(m.heap, "assert"))

\* The Node constructor counting a child once when left and right are the same node.
NewNodeOnce(m, n, left, elem, right) ==
    LET m0 == Mem([m.heap EXCEPT ![n] =
                    [alloc |-> TRUE, _elem |-> elem, _left |-> left,
                     _right |-> right, _refs |-> 0]], m.fault)
        m1 == IF left # nullptr THEN addRef(m0, left) ELSE m0
    IN  IF right # nullptr /\ right # left THEN addRef(m1, right) ELSE m1

\* new Node(left, elem, right), placed at the free address n.
NewNode(m, n, left, elem, right) ==
    LET m0 == Mem([m.heap EXCEPT ![n] =
                    [alloc |-> TRUE, _elem |-> elem, _left |-> left,
                     _right |-> right, _refs |-> 0]], m.fault)
        m1 == IF left # nullptr THEN addRef(m0, left) ELSE m0
        m2 == IF right # nullptr THEN addRef(m1, right) ELSE m1
    IN  m2

\* delete root
DeleteNode(m, n) ==
    Touch(m, n, Mem([m.heap EXCEPT ![n] = NoNode], m.fault))

\* free(Node*) deleting the root without releasing its children.
freeNodeShallow(m, root) ==
    IF root = nullptr \/ m.fault # "none" THEN m
    ELSE LET m1 == rmRef(m, root)
         IN  IF m1.fault # "none" THEN m1
             ELSE IF m1.heap[root]._refs = 0 THEN DeleteNode(m1, root) ELSE m1

\* free(Node*) releasing the left child only.
RECURSIVE freeNodeLeftOnly(_, _)
freeNodeLeftOnly(m, root) ==
    IF root = nullptr \/ m.fault # "none" THEN m
    ELSE LET m1 == rmRef(m, root)
         IN  IF m1.fault # "none" THEN m1
             ELSE IF m1.heap[root]._refs = 0
                  THEN DeleteNode(freeNodeLeftOnly(m1, m1.heap[root]._left), root)
                  ELSE m1

\* free(Node*) releasing the children whether or not the count reached zero.
RECURSIVE freeNodeEager(_, _)
freeNodeEager(m, root) ==
    IF root = nullptr \/ m.fault # "none" THEN m
    ELSE LET m1 == rmRef(m, root)
         IN  IF m1.fault # "none" THEN m1
             ELSE LET m2 == freeNodeEager(m1, m1.heap[root]._left)
                      m3 == freeNodeEager(m2, m2.heap[root]._right)
                  IN  IF m3.fault = "none" /\ m3.heap[root]._refs = 0
                      THEN DeleteNode(m3, root) ELSE m3

\* static void free(Node *root)
RECURSIVE freeNode(_, _)
freeNode(m, root) ==
    IF root = nullptr \/ m.fault # "none" THEN m
    ELSE LET m1 == rmRef(m, root)
         IN  IF m1.fault # "none" THEN m1
             ELSE IF m1.heap[root]._refs = 0
                  THEN LET m2 == freeNode(m1, m1.heap[root]._left)
                           m3 == freeNode(m2, m2.heap[root]._right)
                       IN  DeleteNode(m3, root)
                  ELSE m1

\* ------------------------------------------------------------------ BinTree
Cur == Mem(heap, fault)

\* operator new: the address of the new Node.  Addresses are interchangeable
\* (the code only compares them for equality), so the allocator is taken to
\* return the lowest free one.
new(n) == ~heap[n].alloc /\ \A k \in Addrs : k < n => heap[k].alloc

\* The element a program gives to the node it constructs next: it goes by
\* the address the node will have, so that neighbours differ.
NewElems == {1 + (n % MaxElem) : n \in {k \in Addrs : new(k)}}

\* bool empty() const
empty(h) == _root[h] = nullptr

\* The effect of a member function on memory and on object h.  Nothing runs
\* once the program has gone wrong.
Effect(m, h, isLive, r) ==
    /\ fault = "none"
    /\ heap' = m.heap
    /\ fault' = m.fault
    /\ live' = [live EXCEPT ![h] = isLive]
    /\ _root' = [_root EXCEPT ![h] = r]

\* BinTree() : _root(nullptr)
BinTreeEmpty(h) ==
    /\ ~live[h]
    /\ Effect(Cur, h, TRUE, nullptr)

\* BinTree(const T &elem) : _root(new Node(nullptr, elem, nullptr)) { _root->addRef(); }
BinTreeLeaf(h, e) ==
    /\ ~live[h]
    /\ \E n \in Addrs :
        /\ new(n)
        /\ Effect(addRef(NewNode(Cur, n, nullptr, e, nullptr), n), h, TRUE, n)

\* BinTree(const BinTree &iz, const T &elem, const BinTree &dr)
BinTreeComposite(h, iz, e, dr) ==
    /\ ~live[h] /\ live[iz] /\ live[dr]
    /\ \E n \in Addrs :
        /\ new(n)
        /\ Effect(addRef(NewNode(Cur, n, _root[iz], e, _root[dr]), n), h, TRUE, n)

\* The protected constructor without its addRef.
BinTreeFromNodeNoRef(m, raiz) == m

\* BinTree(Node *raiz) : _root(raiz) { if (_root != nullptr) _root->addRef(); }
BinTreeFromNode(m, raiz) ==
    IF raiz # nullptr THEN addRef(m, raiz) ELSE m

\* copy() that takes other's root without counting the new reference.
copyNoAddRef(m, h, other) ==
    IF m.fault # "none" THEN m
    ELSE IF h = other THEN Mem(m.heap, "assert")
    ELSE m

\* void copy(const BinTree &other) of object h: the memory after it; _root
\* becomes other._root
copy(m, h, other) ==
    IF m.fault # "none" THEN m
    ELSE IF h = other THEN Mem(m.heap, "assert")
    ELSE IF _root[other] # nullptr THEN addRef(m, _root[other]) ELSE m

\* BinTree(const BinTree<T> &other) : _root(NULL) { copy(other); }
BinTreeCopy(h, other) ==
    /\ ~live[h] /\ live[other]
    /\ Effect(copy(Cur, h, other), h, TRUE, _root[other])

\* void free() { free(_root); }
free(m, h) == freeNode(m, _root[h])

\* ~BinTree() { free(); _root = nullptr; }
Destructor(h) ==
    /\ live[h]
    /\ Effect(free(Cur, h), h, FALSE, nullptr)

\* operator= without the test for self-assignment.
operatorAssignNoSelfTest(h, other) ==
    /\ live[h] /\ live[other]
    /\ Effect(copy(free(Cur, h), h, other), h, TRUE, _root[other])

\* BinTree<T> &operator=(const BinTree<T> &other)
operatorAssign(h, other) ==
    /\ live[h] /\ live[other]
    /\ IF h # other
       THEN Effect(copy(free(Cur, h), h, other), h, TRUE, _root[other])
       ELSE Effect(Cur, h, TRUE, _root[h])

\* left() returning the other child.
leftSwapped(h, t) ==
    /\ ~live[h] /\ live[t]
    /\ IF empty(t)
       THEN Effect(Cur, h, FALSE, nullptr)
       ELSE Effect(Touch(Cur, _root[t], BinTreeFromNode(Cur, heap[_root[t]]._right)),
                   h, TRUE, heap[_root[t]]._right)

\* BinTree left() const; the returned object is constructed in slot h
left(h, t) ==
    /\ ~live[h] /\ live[t]
    /\ IF empty(t)
       THEN Effect(Cur, h, FALSE, nullptr)
       ELSE Effect(Touch(Cur, _root[t], BinTreeFromNode(Cur, heap[_root[t]]._left)),
                   h, TRUE, heap[_root[t]]._left)

\* BinTree right() const; the returned object is constructed in slot h
right(h, t) ==
    /\ ~live[h] /\ live[t]
    /\ IF empty(t)
       THEN Effect(Cur, h, FALSE, nullptr)
       ELSE Effect(Touch(Cur, _root[t], BinTreeFromNode(Cur, heap[_root[t]]._right)),
                   h, TRUE, heap[_root[t]]._right)

\* ------------------------------------------------------------------ observers
\* const T &elem() const
elem(t) == IF empty(t) THEN "EmptyTreeException" ELSE heap[_root[t]]._elem

\* static void preOrderAux(Node *root, List<T> &acc): acc afterwards
RECURSIVE preOrderAux(_, _, _)
preOrderAux(hp, root, acc) ==
    IF root # nullptr
    THEN preOrderAux(hp, hp[root]._right,
            preOrderAux(hp, hp[root]._left, Append(acc, hp[root]._elem)))
    ELSE acc

\* static void inOrderAux(Node *root, List<T> &acc): acc afterwards
RECURSIVE inOrderAux(_, _, _)
inOrderAux(hp, root, acc) ==
    IF root # nullptr
    THEN inOrderAux(hp, hp[root]._right,
            Append(inOrderAux(hp, hp[root]._left, acc), hp[root]._elem))
    ELSE acc

\* static void postOrderAux(Node *root, List<T> &acc): acc afterwards
RECURSIVE postOrderAux(_, _, _)
postOrderAux(hp, root, acc) ==
    IF root # nullptr
    THEN Append(postOrderAux(hp, hp[root]._right,
                    postOrderAux(hp, hp[root]._left, acc)), hp[root]._elem)
    ELSE acc

\* List<T>* preOrder() const, inOrder() const, postOrder() const
preOrder(t) == preOrderAux(heap, _root[t], <<>>)
inOrder(t) == inOrderAux(heap, _root[t], <<>>)
postOrder(t) == postOrderAux(heap, _root[t], <<>>)

\* The loop of levels() with a stack in the place of the queue.
RECURSIVE levelsLoopLifo(_, _, _)
levelsLoopLifo(hp, pending, acc) ==
    IF pending # <<>>
    THEN LET current == Head(pending)
             p0 == Tail(pending)
             p1 == IF hp[current]._left # nullptr
                   THEN <<hp[current]._left>> \o p0 ELSE p0
             p2 == IF hp[current]._right # nullptr
                   THEN <<hp[current]._right>> \o p1 ELSE p1
         IN  levelsLoopLifo(hp, p2, Append(acc, hp[current]._elem))
    ELSE acc

\* The while loop of levels(): pending is the Queue<Node*>, acc the list.
RECURSIVE levelsLoop(_, _, _)
levelsLoop(hp, pending, acc) ==
    IF pending # <<>>
    THEN LET current == Head(pending)
             p0 == Tail(pending)
             p1 == IF hp[current]._left # nullptr
                   THEN Append(p0, hp[current]._left) ELSE p0
             p2 == IF hp[current]._right # nullptr
                   THEN Append(p1, hp[current]._right) ELSE p1
         IN  levelsLoop(hp, p2, Append(acc, hp[current]._elem))
    ELSE acc

\* List<T>* levels() const
levels(t) == IF ~empty(t) THEN levelsLoop(heap, <<_root[t]>>, <<>>) ELSE <<>>

\* static unsigned int nodeCountAux(Node *root)
RECURSIVE nodeCountAux(_, _)
nodeCountAux(hp, root) ==
    IF root = nullptr THEN 0
    ELSE 1 + nodeCountAux(hp, hp[root]._left) + nodeCountAux(hp, hp[root]._right)

\* depthAux taking the shallower child.
RECURSIVE depthAuxMin(_, _)
depthAuxMin(hp, root) ==
    IF root = nullptr THEN 0
    ELSE LET leftDepth == depthAuxMin(hp, hp[root]._left)
             rightDepth == depthAuxMin(hp, hp[root]._right)
         IN  IF leftDepth < rightDepth THEN 1 + leftDepth ELSE 1 + rightDepth

\* static unsigned int depthAux(Node *root)
RECURSIVE depthAux(_, _)
depthAux(hp, root) ==
    IF root = nullptr THEN 0
    ELSE LET leftDepth == depthAux(hp, hp[root]._left)
             rightDepth == depthAux(hp, hp[root]._right)
         IN  IF leftDepth > rightDepth THEN 1 + leftDepth ELSE 1 + rightDepth

\* static unsigned int leafCountAux(Node *root)
RECURSIVE leafCountAux(_, _)
leafCountAux(hp, root) ==
    IF root = nullptr THEN 0
    ELSE IF hp[root]._left = nullptr /\ hp[root]._right = nullptr THEN 1
    ELSE leafCountAux(hp, hp[root]._left) + leafCountAux(hp, hp[root]._right)

\* unsigned int nodeCount() const, depth() const, leafCount() const
nodeCount(t) == nodeCountAux(heap, _root[t])
depth(t) == depthAux(heap, _root[t])
leafCount(t) == leafCountAux(heap, _root[t])

\* compareAux comparing the pointers only.
compareAuxIdentity(hp, r1, r2) == r1 = r2

\* static bool compareAux(Node *r1, Node *r2)
RECURSIVE compareAux(_, _, _)
compareAux(hp, r1, r2) ==
    IF r1 = r2 THEN TRUE
    ELSE IF r1 = nullptr \/ r2 = nullptr THEN FALSE
    ELSE /\ hp[r1]._elem = hp[r2]._elem
         /\ compareAux(hp, hp[r1]._left, hp[r2]._left)
         /\ compareAux(hp, hp[r1]._right, hp[r2]._right)

\* bool operator==(const BinTree<T> &rhs) const
operatorEq(t, rhs) == compareAux(heap, _root[t], _root[rhs])

\* bool operator!=(const BinTree<T> &rhs) const
operatorNeq(t, rhs) == ~operatorEq(t, rhs)

\* ------------------------------------------------------------------ program
\* BinTree objects are interchangeable too: a new object takes the lowest slot.
Fresh(h) == ~live[h] /\ \A k \in Handles : k < h => live[k]

\* A program that reads nothing: no token is waiting on std::cin.
NoInput == [buf |-> <<>>, failbit |-> FALSE]

\* A Node of BinTreeSmart whose memory is not allocated, and a program
\* without BinTreeSmart objects.
SmartNoNode ==
    [alloc |-> FALSE, _elem |-> 0, _left |-> nullptr, _right |-> nullptr, use_count |-> 0]

NoSmart ==
    [heap |-> [n \in Addrs |-> SmartNoNode], fault |-> "none",
     _root |-> [h \in Handles |-> nullptr]]

\* The addresses of the nodes of a linked container, and a node of each
\* container whose memory is not allocated.
Cells == 1..MaxCells

NoCell == [alloc |-> FALSE, _elem |-> 0, _next |-> nullptr]
NoListCell == [alloc |-> FALSE, _elem |-> 0, _next |-> nullptr, _prev |-> nullptr]
NoSingleCell == [alloc |-> FALSE, _value |-> 0, _next |-> nullptr]
NoMapCell == [alloc |-> FALSE, _key |-> 0, _value |-> 0, _next |-> nullptr]

\* The keys given to a HashMap: 0, 8 and 16 share a bin of 8, 0 and 16 a bin
\* of 16; a node of the map has one of as many addresses.
Keys == {0, 1, 2, 3, 4, 8, 16}
Vals == 0..MaxVal

\* One key more, for the programs in which a key that is not there is added
\* to a table about to grow.
MoreKeys == Keys \cup {5}
MapCells == 1..Cardinality(MoreKeys)

\* The containers of a program that has none.
NoStack == [alive |-> FALSE, _data |-> <<>>, _max |-> 0, _size |-> 0]
NoLinkedListStack ==
    [alive |-> FALSE, node |-> [c \in Cells |-> NoCell], _top |-> nullptr, _size |-> 0]
NoQueue ==
    [alive |-> FALSE, node |-> [c \in Cells |-> NoCell],
     _first |-> nullptr, _last |-> nullptr, _size |-> 0]
NoList ==
    [alive |-> FALSE, node |-> [c \in Cells |-> NoListCell],
     _first |-> nullptr, _last |-> nullptr, _size |-> 0]
NoListLinkedSingle ==
    [alive |-> FALSE, node |-> [c \in Cells |-> NoSingleCell],
     _head |-> nullptr, _tail |-> nullptr]
NoHashMap ==
    [alive |-> FALSE, node |-> [c \in MapCells |-> NoMapCell],
     _bins |-> <<>>, _binCount |-> 0, _entryCount |-> 0]

\* The keys of a TreeMap (the elements of a TreeSet) and the addresses of
\* its nodes.
TreeKeys == 1..MaxKey
TreeCells == 1..MaxKey

NoTreeMapCell ==
    [alloc |-> FALSE, _key |-> 0, _value |-> 0, _left |-> nullptr, _right |-> nullptr]
NoTreeSetCell == [alloc |-> FALSE, _elem |-> 0, _left |-> nullptr, _right |-> nullptr]

NoTreeMap ==
    [alive |-> FALSE, node |-> [c \in TreeCells |-> NoTreeMapCell],
     _root |-> nullptr, _size |-> 0]
NoTreeSet == [alive |-> FALSE, node |-> [c \in TreeCells |-> NoTreeSetCell], _root |-> nullptr]

\* No iterator, and no second container.
NoIter ==
    [alive |-> FALSE, konst |-> FALSE, _current |-> nullptr, _ancestors |-> NoStack, _idx |-> 0]
NoTwin == [alive |-> FALSE]

NoRest == tmap = NoTreeMap /\ tset = NoTreeSet /\ iter = NoIter /\ twin = NoTwin

NoPeers ==
    /\ stack = NoStack /\ lstack = NoLinkedListStack /\ queue = NoQueue
    /\ list = NoList /\ slist = NoListLinkedSingle /\ map = NoHashMap
    /\ NoRest

\* The record of a call on object h: was is the receiver's root and that
\* node's child links when the call began.
\* cmp is the right operand of a comparison or the argument of
\* fromPreOrderInput (0 in any other call).
Call(name, h, rhs) ==
    [op |-> name, h |-> h, cmp |-> rhs,
     was |-> IF _root[h] # nullptr
             THEN <<_root[h], heap[_root[h]]._left, heap[_root[h]]._right>>
             ELSE <<nullptr, nullptr, nullptr>>]

Called(name, h, result) ==
    /\ last' = Call(name, h, 0)
    /\ ret' = result
    /\ UNCHANGED <<cin, smart, peers>>

Thrown(t) == IF empty(t) THEN "EmptyTreeException" ELSE "void"

Init ==
    /\ heap = [n \in Addrs |-> NoNode]
    /\ fault = "none"
    /\ live = [h \in Handles |-> FALSE]
    /\ _root = [h \in Handles |-> nullptr]
    /\ last = [op |-> "main", h |-> 0, cmp |-> 0, was |-> <<nullptr, nullptr, nullptr>>]
    /\ ret = "void"
    /\ cin = NoInput
    /\ smart = NoSmart
    /\ NoPeers

Next ==
    \/ \E h \in Handles : Fresh(h) /\ BinTreeEmpty(h) /\ Called("BinTree()", h, "void")
    \/ \E h \in Handles, e \in NewElems :
         Fresh(h) /\ BinTreeLeaf(h, e) /\ Called("BinTree(elem)", h, "void")
    \/ \E h, iz, dr \in Handles, e \in NewElems :
         Fresh(h) /\ BinTreeComposite(h, iz, e, dr) /\ Called("BinTree(iz,elem,dr)", h, "void")
    \/ \E h, other \in Handles :
         Fresh(h) /\ BinTreeCopy(h, other) /\ Called("BinTree(other)", h, "void")
    \/ \E h \in Handles : Destructor(h) /\ Called("~BinTree", h, "void")
    \/ \E h, other \in Handles :
         operatorAssign(h, other) /\ Called("operator=", h, "void")
    \/ \E h, t \in Handles : Fresh(h) /\ left(h, t) /\ Called("left", h, Thrown(t))
    \/ \E h, t \in Handles : Fresh(h) /\ right(h, t) /\ Called("right", h, Thrown(t))

Spec == Init /\ [][Next]_vars

\* ------------------------------------------------------------------ observing a tree
\* A program that builds trees and then only observes them.  It constructs
\* t_1 .. t_k, each BinTree(t_l, e, t_r) from trees built before (t_0 is the
\* empty tree, so this covers BinTree(e) too), copies two of them into the
\* objects 1 and 2 (taking the later one first: both orders of operands are
\* still compared), and destroys t_k .. t_1.
Steps(i) == [e : TreeElems, l : 0..(i - 1), r : 0..(i - 1)]

RECURSIVE Scripts(_)
Scripts(k) ==
    IF k = 0 THEN {<<>>}
    ELSE {Append(s, st) : s \in Scripts(k - 1), st \in Steps(k)}

RECURSIVE Construct(_, _)
Construct(s, i) ==
    IF i = 0 THEN Mem([n \in Addrs |-> NoNode], "none")
    ELSE addRef(NewNode(Construct(s, i - 1), i, s[i].l, s[i].e, s[i].r), i)

RECURSIVE Destroy(_, _)
Destroy(m, i) == IF i = 0 THEN m ELSE Destroy(freeNode(m, i), i - 1)

Built(s, a, b) ==
    Destroy(BinTreeFromNode(BinTreeFromNode(Construct(s, Len(s)), a), b), Len(s))

InitObs ==
    \E k \in 0..MaxNodes : \E s \in Scripts(k) : \E a \in 0..k : \E b \in 0..a :
        /\ heap = Built(s, a, b).heap
        /\ fault = Built(s, a, b).fault
        /\ live = [h \in Handles |-> h <= 2]
        /\ _root = [h \in Handles |-> IF h = 1 THEN a ELSE IF h = 2 THEN b ELSE nullptr]
        /\ last = [op |-> "built", h |-> 0, cmp |-> 0, was |-> <<nullptr, nullptr, nullptr>>]
        /\ ret = "void"
        /\ cin = NoInput
        /\ smart = NoSmart
        /\ NoPeers

\* A call of a const member function of the live object t.
Observed(name, t, rhs, result) ==
    /\ fault = "none"
    /\ live[t]
    /\ UNCHANGED <<heap, fault, live, _root, cin, smart, peers>>
    /\ last' = Call(name, t, rhs)
    /\ ret' = result

NextObs ==
    \/ \E t \in Handles : Observed("elem", t, 0, elem(t))
    \/ \E t \in Handles : Observed("empty", t, 0, empty(t))
    \/ \E t \in Handles : Observed("preOrder", t, 0, preOrder(t))
    \/ \E t \in Handles : Observed("inOrder", t, 0, inOrder(t))
    \/ \E t \in Handles : Observed("postOrder", t, 0, postOrder(t))
    \/ \E t \in Handles : Observed("levels", t, 0, levels(t))
    \/ \E t \in Handles : Observed("nodeCount", t, 0, nodeCount(t))
    \/ \E t \in Handles : Observed("depth", t, 0, depth(t))
    \/ \E t \in Handles : Observed("leafCount", t, 0, leafCount(t))
    \/ \E t, rhs \in Handles : live[rhs] /\ Observed("operator==", t, rhs, operatorEq(t, rhs))
    \/ \E t, rhs \in Handles : live[rhs] /\ Observed("operator!=", t, rhs, operatorNeq(t, rhs))

SpecObs == InitObs /\ [][NextObs]_vars

ObserverOps ==
    {"elem", "empty", "preOrder", "inOrder", "postOrder", "levels",
     "nodeCount", "depth", "leafCount", "operator==", "operator!="}

\* Both programs: the one that constructs, copies, assigns and destroys, and
\* the one that observes the trees it built.
InitBoth == Init \/ InitObs

NextBoth ==
    \/ last.op \notin ObserverOps \cup {"built"} /\ Next
    \/ last.op \in ObserverOps \cup {"built"} /\ NextObs

SpecBoth == InitBoth /\ [][NextBoth]_vars

\* ------------------------------------------------------------------ reading a tree
\* The values of T on the input of fromPreOrderInput: any of them can be the
\* one that stands for the empty tree.
Tokens == 0..MaxElem

\* operator new in the middle of a function: the lowest free address of m,
\* nullptr when there is none (std::bad_alloc).
newIn(m) ==
    IF \A n \in Addrs : m.heap[n].alloc THEN nullptr
    ELSE CHOOSE n \in Addrs : ~m.heap[n].alloc /\ \A k \in Addrs : k < n => m.heap[k].alloc

\* A numeral (a value of T) as opposed to a punctuation character.
IsNumeral(tok) == tok \in 0..9

\* T elem; std::cin >> elem;  A failed extraction sets failbit; at the end of
\* the input elem is left as it was, uninitialized (junk); on a token that is
\* no numeral zero is stored.
ExtractElem(in, junk) ==
    IF in.failbit \/ in.buf = <<>>
    THEN [val |-> junk, cin |-> [in EXCEPT !.failbit = TRUE]]
    ELSE IF IsNumeral(Head(in.buf))
    THEN [val |-> Head(in.buf), cin |-> [in EXCEPT !.buf = Tail(@)]]
    ELSE [val |-> 0, cin |-> [in EXCEPT !.failbit = TRUE]]

\* What a reading function hands back: the memory, the stream and the root
\* of the returned BinTree.
Parsed(m, in, r) == [m |-> m, cin |-> in, root |-> r]

\* return BinTree<T>(iz, elem, dr) from a function whose locals iz and dr are
\* then destroyed, dr first.
ReturnComposite(m, in, iz, e, dr) ==
    IF m.fault # "none" THEN Parsed(m, in, nullptr)
    ELSE IF newIn(m) = nullptr THEN Parsed(Mem(m.heap, "bad_alloc"), in, nullptr)
    ELSE LET n == newIn(m)
             m1 == addRef(NewNode(m, n, iz, e, dr), n)
         IN  Parsed(freeNode(freeNode(m1, dr), iz), in, n)

\* fromPreOrderInput building the node with hd on the left and hi on the right.
RECURSIVE fromPreOrderInputMirror(_, _, _, _)
fromPreOrderInputMirror(m, in, emptyRep, junk) ==
    IF m.fault # "none" THEN Parsed(m, in, nullptr)
    ELSE IF in.failbit /\ junk # emptyRep
    THEN Parsed(Mem(m.heap, "stack_overflow"), in, nullptr)
    ELSE LET x == ExtractElem(in, junk)
         IN  IF x.val = emptyRep THEN Parsed(m, x.cin, nullptr)
             ELSE LET hi == fromPreOrderInputMirror(m, x.cin, emptyRep, junk)
                      hd == fromPreOrderInputMirror(hi.m, hi.cin, emptyRep, junk)
                  IN  ReturnComposite(hd.m, hd.cin, hd.root, x.val, hi.root)

\* static BinTree<T> fromPreOrderInput(const T& emptyRep).  Once the stream
\* has failed every elem read is the uninitialized value junk: when that is
\* not emptyRep the recursion never ends.
RECURSIVE fromPreOrderInput(_, _, _, _)
fromPreOrderInput(m, in, emptyRep, junk) ==
    IF m.fault # "none" THEN Parsed(m, in, nullptr)
    ELSE IF in.failbit /\ junk # emptyRep
    THEN Parsed(Mem(m.heap, "stack_overflow"), in, nullptr)
    ELSE LET x == ExtractElem(in, junk)
         IN  IF x.val = emptyRep THEN Parsed(m, x.cin, nullptr)
             ELSE LET hi == fromPreOrderInput(m, x.cin, emptyRep, junk)
                      hd == fromPreOrderInput(hi.m, hi.cin, emptyRep, junk)
                  IN  ReturnComposite(hd.m, hd.cin, hi.root, x.val, hd.root)

\* A call t = BinTree<T>::fromPreOrderInput(emptyRep): the returned object is
\* constructed in slot h.
ReadPreOrder(h, emptyRep, junk) ==
    /\ ~live[h]
    /\ LET p == fromPreOrderInput(Cur, cin, emptyRep, junk)
       IN  /\ Effect(p.m, h, p.m.fault = "none", p.root)
           /\ cin' = p.cin
           /\ UNCHANGED <<smart, peers>>
           /\ last' = Call("fromPreOrderInput", h, emptyRep)
           /\ ret' = IF p.m.fault = "none" THEN "void" ELSE p.m.fault

\* The program starts with any tokens on its input.
InitPre ==
    /\ heap = [n \in Addrs |-> NoNode]
    /\ fault = "none"
    /\ live = [h \in Handles |-> FALSE]
    /\ _root = [h \in Handles |-> nullptr]
    /\ last = [op |-> "main", h |-> 0, cmp |-> 0, was |-> <<nullptr, nullptr, nullptr>>]
    /\ ret = "void"
    /\ smart = NoSmart
    /\ NoPeers
    /\ \E k \in 0..MaxInput : \E buf \in [1..k -> Tokens] :
          cin = [buf |-> buf, failbit |-> FALSE]

\* It reads trees one after the other and destroys them.
NextPre ==
    \/ \E h \in Handles, emptyRep, junk \in Tokens :
         Fresh(h) /\ ReadPreOrder(h, emptyRep, junk)
    \/ \E h \in Handles : Destructor(h) /\ Called("~BinTree", h, "void")

SpecPre == InitPre /\ [][NextPre]_vars

\* The characters of the in-order notation, as their codes.
Dot == 46
OpenParen == 40
CloseParen == 41
Digit0 == 48

InOrderChars == {Dot, OpenParen, CloseParen}

\* char c; std::cin >> c;  A failed extraction leaves c as it was (old); from
\* a numeral its digit is read.
ExtractChar(in, old) ==
    IF in.failbit \/ in.buf = <<>>
    THEN [val |-> old, cin |-> [in EXCEPT !.failbit = TRUE]]
    ELSE [val |-> IF IsNumeral(Head(in.buf)) THEN Digit0 + Head(in.buf) ELSE Head(in.buf),
          cin |-> [in EXCEPT !.buf = Tail(@)]]

\* fromInOrderInput without the test of the closing parenthesis.
RECURSIVE fromInOrderInputNoClose(_, _, _, _)
fromInOrderInputNoClose(m, in, junk, junkElem) ==
    IF m.fault # "none" THEN Parsed(m, in, nullptr)
    ELSE IF in.failbit /\ junk = OpenParen
    THEN Parsed(Mem(m.heap, "stack_overflow"), in, nullptr)
    ELSE LET c == ExtractChar(in, junk)
         IN  IF c.val = Dot THEN Parsed(m, c.cin, nullptr)
             ELSE IF c.val # OpenParen THEN Parsed(Mem(m.heap, "assert"), c.cin, nullptr)
             ELSE LET hi == fromInOrderInputNoClose(m, c.cin, junk, junkElem)
                      e == ExtractElem(hi.cin, junkElem)
                      hd == fromInOrderInputNoClose(hi.m, e.cin, junk, junkElem)
                      c2 == ExtractChar(hd.cin, c.val)
                  IN  IF hd.m.fault # "none" THEN Parsed(hd.m, hd.cin, nullptr)
                      ELSE ReturnComposite(hd.m, c2.cin, hi.root, e.val, hd.root)

\* static BinTree<T> fromInOrderInput().  In a call entered after the stream
\* failed c is uninitialized (junk): when that is '(' the recursion never
\* ends.  A failed assert aborts the program.
RECURSIVE fromInOrderInput(_, _, _, _)
fromInOrderInput(m, in, junk, junkElem) ==
    IF m.fault # "none" THEN Parsed(m, in, nullptr)
    ELSE IF in.failbit /\ junk = OpenParen
    THEN Parsed(Mem(m.heap, "stack_overflow"), in, nullptr)
    ELSE LET c == ExtractChar(in, junk)
         IN  IF c.val = Dot THEN Parsed(m, c.cin, nullptr)
             ELSE IF c.val # OpenParen THEN Parsed(Mem(m.heap, "assert"), c.cin, nullptr)
             ELSE LET hi == fromInOrderInput(m, c.cin, junk, junkElem)
                      e == ExtractElem(hi.cin, junkElem)
                      hd == fromInOrderInput(hi.m, e.cin, junk, junkElem)
                      c2 == ExtractChar(hd.cin, c.val)
                  IN  IF hd.m.fault # "none" THEN Parsed(hd.m, hd.cin, nullptr)
                      ELSE IF c2.val # CloseParen
                      THEN Parsed(Mem(hd.m.heap, "assert"), c2.cin, nullptr)
                      ELSE ReturnComposite(hd.m, c2.cin, hi.root, e.val, hd.root)

\* A call t = BinTree<T>::fromInOrderInput(): the returned object is
\* constructed in slot h.
ReadInOrder(h, junk, junkElem) ==
    /\ ~live[h]
    /\ LET p == fromInOrderInput(Cur, cin, junk, junkElem)
       IN  /\ Effect(p.m, h, p.m.fault = "none", p.root)
           /\ cin' = p.cin
           /\ UNCHANGED <<smart, peers>>
           /\ last' = Call("fromInOrderInput", h, 0)
           /\ ret' = IF p.m.fault = "none" THEN "void" ELSE p.m.fault

\* The tree values of at most MaxNodes nodes with elements from E.
TreeValues(E) ==
    LET RECURSIVE OfSize(_)
        OfSize(n) ==
            IF n = 0 THEN {<<>>}
            ELSE UNION {{<<l, e, r>> : l \in OfSize(i), e \in E, r \in OfSize(n - 1 - i)} :
                        i \in 0..(n - 1)}
    IN  UNION {OfSize(n) : n \in 0..MaxNodes}

\* The in-order notation of a tree: '.' for the empty tree, ( left elem right ).
RECURSIVE InOrderText(_)
InOrderText(tv) ==
    IF tv = <<>> THEN <<Dot>>
    ELSE <<OpenParen>> \o InOrderText(tv[1]) \o <<tv[2]>> \o InOrderText(tv[3]) \o <<CloseParen>>

\* The trees whose texts the reading program is given: those with elements
\* of E and the example of the function's comment, 1 with leaves 2 and 3.
InOrderTrees(E) == TreeValues(E) \cup {<<<<<<>>, 2, <<>>>>, 1, <<<<>>, 3, <<>>>>>>}

\* The inputs of the reading program: the text of a tree, whole, cut short at
\* token i, or with token i replaced by another one.
InOrderInputs(E) ==
    UNION {LET w == InOrderText(tv)
           IN  {w} \cup {SubSeq(w, 1, i - 1) : i \in 1..Len(w)}
                   \cup {[w EXCEPT ![i] = tok] : i \in 1..Len(w), tok \in InOrderChars \cup TreeElems}
           : tv \in InOrderTrees(E)}

InitIn ==
    /\ heap = [n \in Addrs |-> NoNode]
    /\ fault = "none"
    /\ live = [h \in Handles |-> FALSE]
    /\ _root = [h \in Handles |-> nullptr]
    /\ last = [op |-> "main", h |-> 0, cmp |-> 0, was |-> <<nullptr, nullptr, nullptr>>]
    /\ ret = "void"
    /\ smart = NoSmart
    /\ NoPeers
    /\ \E buf \in InOrderInputs(Elems) : cin = [buf |-> buf, failbit |-> FALSE]

NextIn ==
    \/ \E h \in Handles, junk \in InOrderChars, junkElem \in Tokens :
         Fresh(h) /\ ReadInOrder(h, junk, junkElem)
    \/ \E h \in Handles : Destructor(h) /\ Called("~BinTree", h, "void")

SpecIn == InitIn /\ [][NextIn]_vars

\* ------------------------------------------------------------------ BinTreeSmart
\* The memory of the program that uses BinTreeSmart.
SmartCur == Mem(smart.heap, smart.fault)

\* The copy of a Link (std::shared_ptr<Node>): the node has one owner more.
LinkCopy(m, p) ==
    IF p = nullptr THEN m
    ELSE Touch(m, p, Mem([m.heap EXCEPT ![p].use_count = @ + 1], m.fault))

\* The destruction of a Link that frees the node whoever else owns it.
RECURSIVE LinkDestroyAlways(_, _)
LinkDestroyAlways(m, p) ==
    IF p = nullptr \/ m.fault # "none" THEN m
    ELSE IF ~m.heap[p].alloc THEN Mem(m.heap, "use_after_free")
    ELSE LET m1 == LinkDestroyAlways(m, m.heap[p]._right)
             m2 == LinkDestroyAlways(m1, m1.heap[p]._left)
         IN  IF m2.fault # "none" THEN m2
             ELSE Mem([m2.heap EXCEPT ![p] = SmartNoNode], m2.fault)

\* The destruction of a Link: the node has one owner less; its last owner
\* destroys the Node (the members _right and _left, in that order) and
\* releases its memory.
RECURSIVE LinkDestroy(_, _)
LinkDestroy(m, p) ==
    IF p = nullptr \/ m.fault # "none" THEN m
    ELSE IF ~m.heap[p].alloc THEN Mem(m.heap, "use_after_free")
    ELSE IF m.heap[p].use_count > 1
    THEN Mem([m.heap EXCEPT ![p].use_count = @ - 1], m.fault)
    ELSE LET m1 == LinkDestroy(m, m.heap[p]._right)
             m2 == LinkDestroy(m1, m1.heap[p]._left)
         IN  IF m2.fault # "none" THEN m2
             ELSE Mem([m2.heap EXCEPT ![p] = SmartNoNode], m2.fault)

\* std::make_shared<Node>(Node(left, elem, right)) at the free address n: the
\* new node has one owner and holds copies of the two links.
MakeShared(m, n, iz, e, dr) ==
    LET m1 == LinkCopy(LinkCopy(m, iz), dr)
    IN  IF m1.fault # "none" THEN m1
        ELSE Mem([m1.heap EXCEPT ![n] =
                    [alloc |-> TRUE, _elem |-> e, _left |-> iz,
                     _right |-> dr, use_count |-> 1]], m1.fault)

\* The effect of a member function on the BinTreeSmart object h.
SmartEffect(m, h, r) ==
    smart' = [heap |-> m.heap, fault |-> m.fault, _root |-> [smart._root EXCEPT ![h] = r]]

\* BinTreeSmart() : _root(nullptr)
SmartEmpty(h) == SmartEffect(SmartCur, h, nullptr)

\* BinTreeSmart(const BinTreeSmart &left, const T &elem, const BinTreeSmart &right);
\* BinTreeSmart(const T &elem) is the case of two null links.
SmartConstruct(h, iz, e, dr) ==
    IF newIn(SmartCur) = nullptr
    THEN SmartEffect(Mem(smart.heap, "bad_alloc"), h, nullptr)
    ELSE SmartEffect(MakeShared(SmartCur, newIn(SmartCur), iz, e, dr),
                     h, newIn(SmartCur))

\* The implicit copy constructor, and BinTreeSmart(Link raiz) : _root(raiz)
SmartFromLink(h, raiz) == SmartEffect(LinkCopy(SmartCur, raiz), h, raiz)

\* The implicit destructor.
SmartDestructor(h) == SmartEffect(LinkDestroy(SmartCur, smart._root[h]), h, nullptr)

\* The implicit copy assignment: the link of other is copied and then the
\* link held before is destroyed.
SmartAssign(h, other) ==
    SmartEffect(LinkDestroy(LinkCopy(SmartCur, smart._root[other]), smart._root[h]),
                h, smart._root[other])

\* bool empty() const
SmartIsEmpty(t) == smart._root[t] = nullptr

\* BinTreeSmart left() const, right() const: EmptyTreeException on the empty tree.
SmartLeft(h, t) ==
    IF SmartIsEmpty(t) THEN UNCHANGED smart
    ELSE SmartFromLink(h, smart.heap[smart._root[t]]._left)

SmartRight(h, t) ==
    IF SmartIsEmpty(t) THEN UNCHANGED smart
    ELSE SmartFromLink(h, smart.heap[smart._root[t]]._right)

SmartThrown(t) == IF SmartIsEmpty(t) THEN "EmptyTreeException" ELSE "void"

\* What the const member functions of BinTreeSmart return on object t: elem,
\* the traversals and the metrics (the same functions over Link as BinTree's
\* over Node*).
SmartObservers(t) ==
    [empty |-> SmartIsEmpty(t),
     elem |-> IF SmartIsEmpty(t) THEN "EmptyTreeException"
              ELSE smart.heap[smart._root[t]]._elem,
     preOrder |-> preOrderAux(smart.heap, smart._root[t], <<>>),
     inOrder |-> inOrderAux(smart.heap, smart._root[t], <<>>),
     postOrder |-> postOrderAux(smart.heap, smart._root[t], <<>>),
     levels |-> IF ~SmartIsEmpty(t) THEN levelsLoop(smart.heap, <<smart._root[t]>>, <<>>)
                ELSE <<>>,
     nodeCount |-> nodeCountAux(smart.heap, smart._root[t]),
     depth |-> depthAux(smart.heap, smart._root[t]),
     leafCount |-> leafCountAux(smart.heap, smart._root[t])]

\* bool operator==(const BinTreeSmart<T> &rhs) const
SmartEq(t, rhs) == compareAux(smart.heap, smart._root[t], smart._root[rhs])

\* What the const member functions of BinTree return on object t.
Observers(t) ==
    [empty |-> empty(t), elem |-> elem(t),
     preOrder |-> preOrder(t), inOrder |-> inOrder(t), postOrder |-> postOrder(t),
     levels |-> levels(t),
     nodeCount |-> nodeCount(t), depth |-> depth(t), leafCount |-> leafCount(t)]

\* The record of a call made on both variants, with the outcome of each.
CalledBoth(name, h, result, smartResult) ==
    /\ last' = [op |-> name, h |-> h, cmp |-> 0, was |-> <<nullptr, nullptr, nullptr>>]
    /\ ret' = <<result, smartResult>>
    /\ UNCHANGED <<cin, peers>>

InitSmart ==
    /\ heap = [n \in Addrs |-> NoNode]
    /\ fault = "none"
    /\ live = [h \in Handles |-> FALSE]
    /\ _root = [h \in Handles |-> nullptr]
    /\ last = [op |-> "main", h |-> 0, cmp |-> 0, was |-> <<nullptr, nullptr, nullptr>>]
    /\ ret = <<"void", "void">>
    /\ cin = NoInput
    /\ smart = NoSmart
    /\ NoPeers

\* The same operation is applied to the BinTree object h and to its
\* BinTreeSmart counterpart.
NextSmart ==
    \/ \E h \in Handles :
         Fresh(h) /\ BinTreeEmpty(h) /\ SmartEmpty(h) /\ CalledBoth("BinTree()", h, "void", "void")
    \/ \E h \in Handles, e \in NewElems :
         /\ Fresh(h) /\ BinTreeLeaf(h, e) /\ SmartConstruct(h, nullptr, e, nullptr)
         /\ CalledBoth("BinTree(elem)", h, "void", "void")
    \/ \E h, iz, dr \in Handles, e \in NewElems :
         /\ Fresh(h) /\ BinTreeComposite(h, iz, e, dr)
         /\ SmartConstruct(h, smart._root[iz], e, smart._root[dr])
         /\ CalledBoth("BinTree(iz,elem,dr)", h, "void", "void")
    \/ \E h, other \in Handles :
         /\ Fresh(h) /\ BinTreeCopy(h, other) /\ SmartFromLink(h, smart._root[other])
         /\ CalledBoth("BinTree(other)", h, "void", "void")
    \/ \E h \in Handles :
         Destructor(h) /\ SmartDestructor(h) /\ CalledBoth("~BinTree", h, "void", "void")
    \/ \E h, other \in Handles :
         operatorAssign(h, other) /\ SmartAssign(h, other)
         /\ CalledBoth("operator=", h, "void", "void")
    \/ \E h, t \in Handles :
         Fresh(h) /\ left(h, t) /\ SmartLeft(h, t)
         /\ CalledBoth("left", h, Thrown(t), SmartThrown(t))
    \/ \E h, t \in Handles :
         Fresh(h) /\ right(h, t) /\ SmartRight(h, t)
         /\ CalledBoth("right", h, Thrown(t), SmartThrown(t))

SpecSmart == InitSmart /\ [][NextSmart]_vars

\* ------------------------------------------------------------------ Stack
\* What a member function leaves behind: the object, what the call returned
\* or threw, and the fault flag of the program.
Out(obj, r, f) == [obj |-> obj, ret |-> r, fault |-> f]

\* How a call ended: it returned a value (0 for void), threw the exception
\* named, or the process aborted.
Returned(v) == [exit |-> "return", value |-> v]
Void == Returned(0)
Throw(exception) == [exit |-> exception, value |-> 0]

\* static const int INITIAL_CAPACITY
INITIAL_CAPACITY == 10

\* Stack() { init(); }  The elements of new T[n] are indeterminate (0 here:
\* no function reads an element at or above _size).
Stack_init ==
    [alive |-> TRUE, _data |-> [i \in 1..INITIAL_CAPACITY |-> 0],
     _max |-> INITIAL_CAPACITY, _size |-> 0]

\* grow() that copies one element too few.
Stack_growShort(s) ==
    [s EXCEPT !._max = 2 * s._max,
              !._data = [i \in 1..(2 * s._max) |-> IF i < s._size THEN s._data[i] ELSE 0]]

\* void grow(): _data[i] of the code is _data[i + 1] here.
Stack_grow(s) ==
    [s EXCEPT !._max = 2 * s._max,
              !._data = [i \in 1..(2 * s._max) |-> IF i <= s._size THEN s._data[i] ELSE 0]]

\* void push(const T &_elem)
Stack_push(s, e) ==
    LET s1 == [s EXCEPT !._data[s._size + 1] = e, !._size = s._size + 1]
    IN  Out(IF s1._size = s1._max THEN Stack_grow(s1) ELSE s1, Void, "none")

\* pop() that decrements before it checks.
Stack_popLate(s) ==
    IF s._size = 0 THEN Out([s EXCEPT !._size = s._size - 1], Throw("EmptyStackException"), "none")
    ELSE Out([s EXCEPT !._size = s._size - 1], Void, "none")

\* void pop()
Stack_pop(s) ==
    IF s._size = 0 THEN Out(s, Throw("EmptyStackException"), "none")
    ELSE Out([s EXCEPT !._size = s._size - 1], Void, "none")

\* const T &top() const, bool empty() const, int size() const
Stack_observers(s) ==
    [top |-> IF s._size = 0 THEN Throw("EmptyStackException") ELSE Returned(s._data[s._size]),
     empty |-> Returned(s._size = 0),
     size |-> Returned(s._size)]

\* ------------------------------------------------------------------ LinkedListStack, Queue
\* operator new for a node of a linked container: the lowest free address,
\* nullptr when there is none.
newCell(node) ==
    IF \A c \in DOMAIN node : node[c].alloc THEN nullptr
    ELSE CHOOSE c \in DOMAIN node :
            ~node[c].alloc /\ \A k \in DOMAIN node : k < c => node[k].alloc

\* LinkedListStack() : _top(nullptr), _size(0)
LinkedListStack_init ==
    [alive |-> TRUE, node |-> [c \in Cells |-> NoCell], _top |-> nullptr, _size |-> 0]

\* void push(const T &_elem)
LinkedListStack_push(s, e) ==
    LET n == newCell(s.node)
    IN  Out([s EXCEPT !.node[n] = [alloc |-> TRUE, _elem |-> e, _next |-> s._top],
                      !._top = n, !._size = s._size + 1], Void, "none")

\* void pop()
LinkedListStack_pop(s) ==
    IF s._top = nullptr THEN Out(s, Throw("EmptyStackException"), "none")
    ELSE IF ~s.node[s._top].alloc THEN Out(s, Void, "use_after_free")
    ELSE Out([s EXCEPT !._top = s.node[s._top]._next, !.node[s._top] = NoCell,
                       !._size = s._size - 1], Void, "none")

\* const T &top() const, bool empty() const, int size() const
LinkedListStack_observers(s) ==
    [top |-> IF s._top = nullptr THEN Throw("EmptyStackException") ELSE Returned(s.node[s._top]._elem),
     empty |-> Returned(s._top = nullptr),
     size |-> Returned(s._size)]

\* Queue() : _first(nullptr), _last(nullptr), _size(0)
Queue_init ==
    [alive |-> TRUE, node |-> [c \in Cells |-> NoCell],
     _first |-> nullptr, _last |-> nullptr, _size |-> 0]

\* void push_back(const T &_elem)
Queue_push_back(q, e) ==
    LET newNode == newCell(q.node)
        n1 == [q.node EXCEPT ![newNode] = [alloc |-> TRUE, _elem |-> e, _next |-> nullptr]]
        n2 == IF q._last # nullptr THEN [n1 EXCEPT ![q._last]._next = newNode] ELSE n1
    IN  Out([q EXCEPT !.node = n2, !._last = newNode,
                      !._first = IF q._first = nullptr THEN newNode ELSE q._first,
                      !._size = q._size + 1], Void, "none")

\* void pop_front()
Queue_pop_front(q) ==
    IF q._first = nullptr THEN Out(q, Throw("EmptyQueueException"), "none")
    ELSE IF ~q.node[q._first].alloc THEN Out(q, Void, "use_after_free")
    ELSE LET toRemove == q._first
             q1 == [q EXCEPT !._first = q.node[toRemove]._next, !.node[toRemove] = NoCell,
                             !._size = q._size - 1]
         IN  Out(IF q1._first = nullptr THEN [q1 EXCEPT !._last = nullptr] ELSE q1,
                 Void, "none")

\* const T &front() const, bool empty() const, int size() const
Queue_observers(q) ==
    [front |-> IF q._first = nullptr THEN Throw("EmptyQueueException") ELSE Returned(q.node[q._first]._elem),
     empty |-> Returned(q._first = nullptr),
     size |-> Returned(q._size)]

\* ------------------------------------------------------------------ List
\* List() : _first(nullptr), _last(nullptr), _size(0)
List_init ==
    [alive |-> TRUE, node |-> [c \in Cells |-> NoListCell],
     _first |-> nullptr, _last |-> nullptr, _size |-> 0]

\* Node *insertElem(const T &e, Node *node1, Node *node2): the list after the
\* insertion; the node it returns is newCell(l.node).
List_insertElem(l, e, node1, node2) ==
    LET new_node == newCell(l.node)
        n0 == [l.node EXCEPT ![new_node] =
                  [alloc |-> TRUE, _elem |-> e, _next |-> node2, _prev |-> node1]]
        n1 == IF node1 # nullptr THEN [n0 EXCEPT ![node1]._next = new_node] ELSE n0
        n2 == IF node2 # nullptr THEN [n1 EXCEPT ![node2]._prev = new_node] ELSE n1
    IN  [l EXCEPT !.node = n2, !._size = l._size + 1]

\* deleteElem that leaves the _prev of the following node as it was.
List_deleteElemForward(l, n) ==
    LET pprev == l.node[n]._prev
        pnext == l.node[n]._next
        n1 == IF pprev # nullptr THEN [l.node EXCEPT ![pprev]._next = pnext] ELSE l.node
    IN  [l EXCEPT !.node = [n1 EXCEPT ![n] = NoListCell], !._size = l._size - 1]

\* void deleteElem(Node *n), reached only with n != nullptr
List_deleteElem(l, n) ==
    LET pprev == l.node[n]._prev
        pnext == l.node[n]._next
        n1 == IF pprev # nullptr THEN [l.node EXCEPT ![pprev]._next = pnext] ELSE l.node
        n2 == IF pnext # nullptr THEN [n1 EXCEPT ![pnext]._prev = pprev] ELSE n1
    IN  [l EXCEPT !.node = [n2 EXCEPT ![n] = NoListCell], !._size = l._size - 1]

\* void push_front(const T &_elem)
List_push_front(l, e) ==
    LET l1 == [List_insertElem(l, e, nullptr, l._first) EXCEPT !._first = newCell(l.node)]
    IN  Out(IF l1._last = nullptr THEN [l1 EXCEPT !._last = l1._first] ELSE l1,
            Void, "none")

\* void push_back(const T &_elem)
List_push_back(l, e) ==
    LET l1 == [List_insertElem(l, e, l._last, nullptr) EXCEPT !._last = newCell(l.node)]
    IN  Out(IF l1._first = nullptr THEN [l1 EXCEPT !._first = l1._last] ELSE l1,
            Void, "none")

\* void pop_front()
List_pop_front(l) ==
    IF l._first = nullptr THEN Out(l, Throw("EmptyListException"), "none")
    ELSE LET aBorrar == l._first
             l1 == List_deleteElem([l EXCEPT !._first = l.node[aBorrar]._next], aBorrar)
         IN  Out(IF l1._first = nullptr THEN [l1 EXCEPT !._last = nullptr] ELSE l1,
                 Void, "none")

\* void pop_back()
List_pop_back(l) ==
    IF l._first = nullptr THEN Out(l, Throw("EmptyListException"), "none")
    ELSE LET aBorrar == l._last
             l1 == List_deleteElem([l EXCEPT !._last = l.node[aBorrar]._prev], aBorrar)
         IN  Out(IF l1._last = nullptr THEN [l1 EXCEPT !._first = nullptr] ELSE l1,
                 Void, "none")

\* const T &front() const, const T &back() const, bool empty() const,
\* unsigned int size() const
List_observers(l) ==
    [front |-> IF l._first = nullptr THEN Throw("EmptyListException") ELSE Returned(l.node[l._first]._elem),
     back |-> IF l._first = nullptr THEN Throw("EmptyListException") ELSE Returned(l.node[l._last]._elem),
     empty |-> Returned(l._first = nullptr),
     size |-> Returned(l._size)]

\* ------------------------------------------------------------------ ListLinkedSingle
\* ListLinkedSingle(): the phantom node is the first allocation; its _value
\* is never initialised, so it holds whatever junk the memory held.
ListLinkedSingle_init(junk) ==
    [alive |-> TRUE,
     node |-> [c \in Cells |-> IF c = 1 THEN [alloc |-> TRUE, _value |-> junk, _next |-> nullptr]
                                ELSE NoSingleCell],
     _head |-> 1, _tail |-> 1]

\* void push_front(const T &_elem)
ListLinkedSingle_push_front(s, e) ==
    LET new_node == newCell(s.node)
    IN  Out([s EXCEPT !.node[new_node] =
                         [alloc |-> TRUE, _value |-> e, _next |-> s.node[s._head]._next],
                      !.node[s._head]._next = new_node,
                      !._tail = IF s._tail = s._head THEN new_node ELSE s._tail],
            Void, "none")

\* void push_back(const T &_elem)
ListLinkedSingle_push_back(s, e) ==
    LET new_node == newCell(s.node)
    IN  Out([s EXCEPT !.node[new_node] = [alloc |-> TRUE, _value |-> e, _next |-> nullptr],
                      !.node[s._tail]._next = new_node,
                      !._tail = new_node],
            Void, "none")

\* void pop_front()
ListLinkedSingle_pop_front(s) ==
    IF s.node[s._head]._next = nullptr THEN Out(s, Throw("abort"), "assert")
    ELSE LET old_head == s.node[s._head]._next
             s1 == [s EXCEPT !.node[s._head]._next = s.node[old_head]._next,
                             !.node[old_head] = NoSingleCell]
         IN  Out(IF s1.node[s1._head]._next = nullptr THEN [s1 EXCEPT !._tail = s1._head]
                 ELSE s1, Void, "none")

\* The node before the last one, as the loop of pop_back() finds it.
RECURSIVE ListLinkedSingle_previous(_, _, _)
ListLinkedSingle_previous(s, previous, current) ==
    IF s.node[current]._next = nullptr THEN <<previous, current>>
    ELSE ListLinkedSingle_previous(s, current, s.node[current]._next)

\* void pop_back()
ListLinkedSingle_pop_back(s) ==
    IF s.node[s._head]._next = nullptr THEN Out(s, Throw("abort"), "assert")
    ELSE LET pc == ListLinkedSingle_previous(s, s._head, s.node[s._head]._next)
         IN  Out([s EXCEPT !.node[pc[2]] = NoSingleCell,
                           !.node[pc[1]]._next = nullptr,
                           !._tail = pc[1]], Void, "none")

\* const T &front() const
ListLinkedSingle_front(s) ==
    IF s.node[s._head]._next = nullptr THEN Out(s, Throw("abort"), "assert")
    ELSE Out(s, Returned(s.node[s.node[s._head]._next]._value), "none")

\* const T &back() const: the assertion is about _tail, which is never
\* nullptr; on an empty list _tail is the phantom node.
ListLinkedSingle_back(s) ==
    IF s._tail = nullptr THEN Out(s, Throw("abort"), "assert")
    ELSE Out(s, Returned(s.node[s._tail]._value), "none")

\* int size() const
RECURSIVE ListLinkedSingle_sizeFrom(_, _)
ListLinkedSingle_sizeFrom(s, current) ==
    IF current = nullptr THEN 0 ELSE 1 + ListLinkedSingle_sizeFrom(s, s.node[current]._next)

\* int size() const, bool empty() const
ListLinkedSingle_observers(s) ==
    [size |-> Returned(ListLinkedSingle_sizeFrom(s, s.node[s._head]._next)),
     empty |-> Returned(s.node[s._head]._next = nullptr)]

\* ------------------------------------------------------------------ HashMap
\* static const int INITIAL_BIN_COUNT, static const unsigned int MAX_OCCUPATION
INITIAL_BIN_COUNT == 8
MAX_OCCUPATION == 80

\* Hash _hash, std::hash<K> unless another is given: the hash of a non-negative
\* int key is the key (as is myhash(int) of Hash.h).
_hash(key) == key

\* new Node(key, value, next): a node of the map is named by the rank of its
\* key unless that address is taken (by a node of another map), and then by
\* the lowest free address; the program never looks at an address except to
\* follow it or to compare it with nullptr.
newMapCell(node, key) ==
    LET rank == Cardinality({k \in MoreKeys : k <= key})
    IN  IF ~node[rank].alloc THEN rank
        ELSE IF \A c \in DOMAIN node : node[c].alloc THEN nullptr
        ELSE CHOOSE c \in DOMAIN node :
                ~node[c].alloc /\ \A k \in DOMAIN node : k < c => node[k].alloc

\* HashMap(): _bins[i] of the code is _bins[i + 1] here.
HashMap_init ==
    [alive |-> TRUE, node |-> [c \in MapCells |-> NoMapCell],
     _bins |-> [i \in 1..INITIAL_BIN_COUNT |-> nullptr],
     _binCount |-> INITIAL_BIN_COUNT, _entryCount |-> 0]

\* static void findWithPrevious(const K &key, Node* &current, Node* &prev):
\* current and prev afterwards, prev being nullptr at the call.
RECURSIVE HashMap_findWithPrevious(_, _, _, _)
HashMap_findWithPrevious(mp, key, current, prev) ==
    IF current = nullptr \/ mp.node[current]._key = key THEN <<current, prev>>
    ELSE HashMap_findWithPrevious(mp, key, mp.node[current]._next, current)

\* findNode() that looks at the first node only.
HashMap_findNodeFirst(mp, key, n) ==
    IF n # nullptr /\ mp.node[n]._key = key THEN n ELSE nullptr

\* static Node* findNode(const K &key, Node* n)
HashMap_findNode(mp, key, n) == HashMap_findWithPrevious(mp, key, n, nullptr)[1]

\* The loops of grow(): n is the node to move next, of bin i - 1 of oldBins.
RECURSIVE HashMap_relink(_, _, _, _)
HashMap_relink(mp, oldBins, i, n) ==
    IF n # nullptr
    THEN LET idx == _hash(mp.node[n]._key) % mp._binCount
         IN  HashMap_relink([mp EXCEPT !.node[n]._next = mp._bins[idx + 1],
                                       !._bins[idx + 1] = n],
                            oldBins, i, mp.node[n]._next)
    ELSE IF i < Len(oldBins) THEN HashMap_relink(mp, oldBins, i + 1, oldBins[i + 1])
    ELSE mp

\* grow() that keeps the chains where they were.
HashMap_growInPlace(mp) ==
    [mp EXCEPT !._binCount = 2 * mp._binCount,
               !._bins = [i \in 1..(2 * mp._binCount) |->
                             IF i <= mp._binCount THEN mp._bins[i] ELSE nullptr]]

\* void grow()
HashMap_grow(mp) ==
    HashMap_relink([mp EXCEPT !._binCount = 2 * mp._binCount,
                              !._bins = [i \in 1..(2 * mp._binCount) |-> nullptr]],
                   mp._bins, 0, nullptr)

\* insert() that never grows the table.
HashMap_insertNoGrow(mp, key, value) ==
    LET idx == _hash(key) % mp._binCount
        n == HashMap_findNode(mp, key, mp._bins[idx + 1])
    IN  IF n # nullptr THEN Out([mp EXCEPT !.node[n]._value = value], Void, "none")
        ELSE Out([mp EXCEPT !.node[newMapCell(mp.node, key)] =
                               [alloc |-> TRUE, _key |-> key, _value |-> value,
                                _next |-> mp._bins[idx + 1]],
                            !._bins[idx + 1] = newMapCell(mp.node, key),
                            !._entryCount = mp._entryCount + 1], Void, "none")

\* insert() that tests the occupation only when the key is new.
HashMap_insertGrowIfNew(mp, key, value) ==
    LET present == HashMap_findNode(mp, key, mp._bins[(_hash(key) % mp._binCount) + 1])
        m1 == IF present = nullptr /\ 100 * mp._entryCount > MAX_OCCUPATION * mp._binCount
              THEN HashMap_grow(mp) ELSE mp
        idx == _hash(key) % m1._binCount
        n == HashMap_findNode(m1, key, m1._bins[idx + 1])
    IN  IF n # nullptr THEN Out([m1 EXCEPT !.node[n]._value = value], Void, "none")
        ELSE Out([m1 EXCEPT !.node[newMapCell(m1.node, key)] =
                               [alloc |-> TRUE, _key |-> key, _value |-> value,
                                _next |-> m1._bins[idx + 1]],
                            !._bins[idx + 1] = newMapCell(m1.node, key),
                            !._entryCount = m1._entryCount + 1], Void, "none")

\* void insert(const K &key, const V &value).  occupation is the float
\* 100 * _entryCount / _binCount, exact at these sizes: it exceeds
\* MAX_OCCUPATION when 100 * _entryCount > MAX_OCCUPATION * _binCount.
HashMap_insert(mp, key, value) ==
    LET m1 == IF 100 * mp._entryCount > MAX_OCCUPATION * mp._binCount
              THEN HashMap_grow(mp) ELSE mp
        idx == _hash(key) % m1._binCount
        n == HashMap_findNode(m1, key, m1._bins[idx + 1])
    IN  IF n # nullptr THEN Out([m1 EXCEPT !.node[n]._value = value], Void, "none")
        ELSE Out([m1 EXCEPT !.node[newMapCell(m1.node, key)] =
                               [alloc |-> TRUE, _key |-> key, _value |-> value,
                                _next |-> m1._bins[idx + 1]],
                            !._bins[idx + 1] = newMapCell(m1.node, key),
                            !._entryCount = m1._entryCount + 1], Void, "none")

\* erase() that forgets the entry count.
HashMap_eraseKeepsCount(mp, key) ==
    LET idx == _hash(key) % mp._binCount
        np == HashMap_findWithPrevious(mp, key, mp._bins[idx + 1], nullptr)
    IN  IF np[1] = nullptr THEN Out(mp, Void, "none")
        ELSE Out([mp EXCEPT !.node[np[1]] = NoMapCell,
                            !._bins[idx + 1] = mp.node[np[1]]._next], Void, "none")

\* void erase(const K &key)
HashMap_erase(mp, key) ==
    LET idx == _hash(key) % mp._binCount
        np == HashMap_findWithPrevious(mp, key, mp._bins[idx + 1], nullptr)
        n == np[1]
        prev == np[2]
        m1 == IF prev # nullptr THEN [mp EXCEPT !.node[prev]._next = mp.node[n]._next]
              ELSE [mp EXCEPT !._bins[idx + 1] = mp.node[n]._next]
    IN  IF n # nullptr
        THEN Out([m1 EXCEPT !.node[n] = NoMapCell, !._entryCount = mp._entryCount - 1],
                 Void, "none")
        ELSE Out(mp, Void, "none")

\* const V &at(const K &key) const, bool contains(const K &key) const,
\* bool empty() const, int size() const
HashMap_observers(mp, key) ==
    LET n == HashMap_findNode(mp, key, mp._bins[(_hash(key) % mp._binCount) + 1])
    IN  [at |-> IF n = nullptr THEN Throw("BadKeyException") ELSE Returned(mp.node[n]._value),
         contains |-> Returned(n # nullptr),
         empty |-> Returned(mp._entryCount = 0),
         size |-> Returned(mp._entryCount)]

\* operator[] that adds nothing.
HashMap_subscriptNoInsert(mp, key) ==
    LET n == HashMap_findNode(mp, key, mp._bins[(_hash(key) % mp._binCount) + 1])
    IN  IF n = nullptr THEN Out(mp, Returned(0), "none")
        ELSE Out(mp, Returned(mp.node[n]._value), "none")

\* V &operator[](const K &key): V() is 0
HashMap_subscript(mp, key) ==
    LET n == HashMap_findNode(mp, key, mp._bins[(_hash(key) % mp._binCount) + 1])
        m1 == HashMap_insert(mp, key, 0).obj
        n1 == HashMap_findNode(m1, key, m1._bins[(_hash(key) % m1._binCount) + 1])
    IN  IF n = nullptr THEN Out(m1, Returned(m1.node[n1]._value), "none")
        ELSE Out(mp, Returned(mp.node[n]._value), "none")

\* ------------------------------------------------------------------ TreeMap, TreeSet
\* new Node(...) of a search tree: the node of a key is named by the key
\* unless that address is taken (by a node of another tree), and then by the
\* lowest free address; nullptr when there is none.
newTreeCell(node, key) ==
    IF ~node[key].alloc THEN key
    ELSE IF \A c \in DOMAIN node : node[c].alloc THEN nullptr
    ELSE CHOOSE c \in DOMAIN node :
            ~node[c].alloc /\ \A k \in DOMAIN node : k < c => node[k].alloc

\* The loop of moveSmallestAndErase(): aux and its parent when it ends.
RECURSIVE Tree_smallest(_, _, _)
Tree_smallest(node, parent, aux) ==
    IF node[aux]._left # nullptr THEN Tree_smallest(node, aux, node[aux]._left)
    ELSE [parent |-> parent, aux |-> aux]

\* moveSmallestAndErase() that unlinks the smallest node without putting its
\* right subtree in its place.
Tree_moveSmallestDropsRight(node, p, blank) ==
    LET s == Tree_smallest(node, nullptr, node[p]._right)
        n1 == IF s.parent # nullptr
              THEN [node EXCEPT ![s.parent]._left = nullptr,
                                ![s.aux]._left = node[p]._left,
                                ![s.aux]._right = node[p]._right]
              ELSE [node EXCEPT ![s.aux]._left = node[p]._left]
    IN  [node |-> [n1 EXCEPT ![p] = blank], p |-> s.aux]

\* Node *moveSmallestAndErase(Node *p), the same in TreeMap and TreeSet: the
\* nodes afterwards and the node returned; blank is a node that is not
\* allocated.
Tree_moveSmallestAndErase(node, p, blank) ==
    LET s == Tree_smallest(node, nullptr, node[p]._right)
        n1 == IF s.parent # nullptr
              THEN [node EXCEPT ![s.parent]._left = node[s.aux]._right,
                                ![s.aux]._left = node[p]._left,
                                ![s.aux]._right = node[p]._right]
              ELSE [node EXCEPT ![s.aux]._left = node[p]._left]
    IN  [node |-> [n1 EXCEPT ![p] = blank], p |-> s.aux]

\* eraseRoot() that takes the left child whenever there is one.
Tree_eraseRootLeft(node, p, blank) ==
    IF node[p]._left = nullptr
    THEN [node |-> [node EXCEPT ![p] = blank], p |-> node[p]._right]
    ELSE [node |-> [node EXCEPT ![p] = blank], p |-> node[p]._left]

\* Node* eraseRoot(Node *p), the same in TreeMap and TreeSet
Tree_eraseRoot(node, p, blank) ==
    IF node[p]._left = nullptr
    THEN [node |-> [node EXCEPT ![p] = blank], p |-> node[p]._right]
    ELSE IF node[p]._right = nullptr
    THEN [node |-> [node EXCEPT ![p] = blank], p |-> node[p]._left]
    ELSE Tree_moveSmallestAndErase(node, p, blank)

\* TreeMap() : _root(nullptr) { _size = 0; }
TreeMap_init ==
    [alive |-> TRUE, node |-> [c \in TreeCells |-> NoTreeMapCell],
     _root |-> nullptr, _size |-> 0]

\* insertAux descending to the right for a smaller key and to the left for a
\* greater one.
RECURSIVE TreeMap_insertAuxMirrored(_, _, _, _)
TreeMap_insertAuxMirrored(tm, key, value, p) ==
    IF p = nullptr
    THEN LET n == newTreeCell(tm.node, key)
         IN  [tm |-> [tm EXCEPT !._size = tm._size + 1,
                                !.node[n] = [alloc |-> TRUE, _key |-> key, _value |-> value,
                                             _left |-> nullptr, _right |-> nullptr]],
              p |-> n]
    ELSE IF key < tm.node[p]._key
    THEN LET r == TreeMap_insertAuxMirrored(tm, key, value, tm.node[p]._right)
         IN  [tm |-> [r.tm EXCEPT !.node[p]._right = r.p], p |-> p]
    ELSE IF tm.node[p]._key < key
    THEN LET r == TreeMap_insertAuxMirrored(tm, key, value, tm.node[p]._left)
         IN  [tm |-> [r.tm EXCEPT !.node[p]._left = r.p], p |-> p]
    ELSE [tm |-> tm, p |-> p]

\* Node *insertAux(const K &key, const V &value, Node *p): the map afterwards
\* and the node returned.  _cless is std::less<K>.
RECURSIVE TreeMap_insertAux(_, _, _, _)
TreeMap_insertAux(tm, key, value, p) ==
    IF p = nullptr
    THEN LET n == newTreeCell(tm.node, key)
         IN  [tm |-> [tm EXCEPT !._size = tm._size + 1,
                                !.node[n] = [alloc |-> TRUE, _key |-> key, _value |-> value,
                                             _left |-> nullptr, _right |-> nullptr]],
              p |-> n]
    ELSE IF key < tm.node[p]._key
    THEN LET r == TreeMap_insertAux(tm, key, value, tm.node[p]._left)
         IN  [tm |-> [r.tm EXCEPT !.node[p]._left = r.p], p |-> p]
    ELSE IF tm.node[p]._key < key
    THEN LET r == TreeMap_insertAux(tm, key, value, tm.node[p]._right)
         IN  [tm |-> [r.tm EXCEPT !.node[p]._right = r.p], p |-> p]
    ELSE [tm |-> tm, p |-> p]

\* void insert(const K &key, const V &value)
TreeMap_insert(tm, key, value) ==
    LET r == TreeMap_insertAux(tm, key, value, tm._root)
    IN  Out([r.tm EXCEPT !._root = r.p], Void, "none")

\* Node *findAux(Node *p, const K &key) const
RECURSIVE TreeMap_findAux(_, _, _)
TreeMap_findAux(tm, p, key) ==
    IF p = nullptr THEN nullptr
    ELSE IF key < tm.node[p]._key THEN TreeMap_findAux(tm, tm.node[p]._left, key)
    ELSE IF tm.node[p]._key < key THEN TreeMap_findAux(tm, tm.node[p]._right, key)
    ELSE p

\* Node *findOrInsert(Node* &root, const K &key, bool& inserted): the map
\* afterwards, root afterwards, the node returned and inserted.  V() is 0.
RECURSIVE TreeMap_findOrInsert(_, _, _)
TreeMap_findOrInsert(tm, root, key) ==
    IF root = nullptr
    THEN LET n == newTreeCell(tm.node, key)
         IN  [tm |-> [tm EXCEPT !.node[n] = [alloc |-> TRUE, _key |-> key, _value |-> 0,
                                             _left |-> nullptr, _right |-> nullptr]],
              root |-> n, ret |-> n, inserted |-> TRUE]
    ELSE IF key < tm.node[root]._key
    THEN LET r == TreeMap_findOrInsert(tm, tm.node[root]._left, key)
         IN  [r EXCEPT !.tm = [r.tm EXCEPT !.node[root]._left = r.root], !.root = root]
    ELSE IF tm.node[root]._key < key
    THEN LET r == TreeMap_findOrInsert(tm, tm.node[root]._right, key)
         IN  [r EXCEPT !.tm = [r.tm EXCEPT !.node[root]._right = r.root], !.root = root]
    ELSE [tm |-> tm, root |-> root, ret |-> root, inserted |-> FALSE]

\* operator[] that counts the key again when it was there.
TreeMap_subscriptCounts(tm, key) ==
    LET r == TreeMap_findOrInsert(tm, tm._root, key)
    IN  Out([r.tm EXCEPT !._root = r.root, !._size = tm._size + 1],
            Returned(r.tm.node[r.ret]._value), "none")

\* V &operator[](const K &key)
TreeMap_subscript(tm, key) ==
    LET r == TreeMap_findOrInsert(tm, tm._root, key)
    IN  Out([r.tm EXCEPT !._root = r.root,
                         !._size = IF r.inserted THEN tm._size + 1 ELSE tm._size],
            Returned(r.tm.node[r.ret]._value), "none")

\* Node* eraseAux(Node *p, const K &key): the map afterwards and the node
\* returned
RECURSIVE TreeMap_eraseAux(_, _, _)
TreeMap_eraseAux(tm, p, key) ==
    IF p = nullptr THEN [tm |-> tm, p |-> nullptr]
    ELSE IF key < tm.node[p]._key
    THEN LET r == TreeMap_eraseAux(tm, tm.node[p]._left, key)
         IN  [tm |-> [r.tm EXCEPT !.node[p]._left = r.p], p |-> p]
    ELSE IF tm.node[p]._key < key
    THEN LET r == TreeMap_eraseAux(tm, tm.node[p]._right, key)
         IN  [tm |-> [r.tm EXCEPT !.node[p]._right = r.p], p |-> p]
    ELSE LET r == Tree_eraseRoot(tm.node, p, NoTreeMapCell)
         IN  [tm |-> [tm EXCEPT !._size = tm._size - 1, !.node = r.node], p |-> r.p]

\* void erase(const K &key)
TreeMap_erase(tm, key) ==
    LET r == TreeMap_eraseAux(tm, tm._root, key)
    IN  Out([r.tm EXCEPT !._root = r.p], Void, "none")

\* The observers with an at() that gives V() for a key that is not there.
TreeMap_observersDefault(tm, key) ==
    LET p == TreeMap_findAux(tm, tm._root, key)
    IN  [at |-> IF p = nullptr THEN Returned(0) ELSE Returned(tm.node[p]._value),
         contains |-> Returned(p # nullptr),
         empty |-> Returned(tm._root = nullptr),
         size |-> Returned(tm._size)]

\* const V &at(const K &key) const, bool contains(const K &key) const,
\* bool empty() const, int size() const
TreeMap_observers(tm, key) ==
    LET p == TreeMap_findAux(tm, tm._root, key)
    IN  [at |-> IF p = nullptr THEN Throw("BadKeyException") ELSE Returned(tm.node[p]._value),
         contains |-> Returned(p # nullptr),
         empty |-> Returned(tm._root = nullptr),
         size |-> Returned(tm._size)]

\* TreeSet() : _root(nullptr)
TreeSet_init ==
    [alive |-> TRUE, node |-> [c \in TreeCells |-> NoTreeSetCell], _root |-> nullptr]

\* insertAux() that adds the element below a node that holds it already.
RECURSIVE TreeSet_insertAuxAgain(_, _, _)
TreeSet_insertAuxAgain(ts, e, p) ==
    IF p = nullptr
    THEN LET n == newTreeCell(ts.node, e)
         IN  [ts |-> [ts EXCEPT !.node[n] = [alloc |-> TRUE, _elem |-> e,
                                             _left |-> nullptr, _right |-> nullptr]],
              p |-> n]
    ELSE IF e < ts.node[p]._elem
    THEN LET r == TreeSet_insertAuxAgain(ts, e, ts.node[p]._left)
         IN  [ts |-> [r.ts EXCEPT !.node[p]._left = r.p], p |-> p]
    ELSE LET r == TreeSet_insertAuxAgain(ts, e, ts.node[p]._right)
         IN  [ts |-> [r.ts EXCEPT !.node[p]._right = r.p], p |-> p]

\* static Node* insertAux(const T &elem, Node *p): the set afterwards and the
\* node returned
RECURSIVE TreeSet_insertAux(_, _, _)
TreeSet_insertAux(ts, e, p) ==
    IF p = nullptr
    THEN LET n == newTreeCell(ts.node, e)
         IN  [ts |-> [ts EXCEPT !.node[n] = [alloc |-> TRUE, _elem |-> e,
                                             _left |-> nullptr, _right |-> nullptr]],
              p |-> n]
    ELSE IF ts.node[p]._elem = e THEN [ts |-> ts, p |-> p]
    ELSE IF e < ts.node[p]._elem
    THEN LET r == TreeSet_insertAux(ts, e, ts.node[p]._left)
         IN  [ts |-> [r.ts EXCEPT !.node[p]._left = r.p], p |-> p]
    ELSE LET r == TreeSet_insertAux(ts, e, ts.node[p]._right)
         IN  [ts |-> [r.ts EXCEPT !.node[p]._right = r.p], p |-> p]

\* void insert(const T &elem)
TreeSet_insert(ts, e) ==
    LET r == TreeSet_insertAux(ts, e, ts._root)
    IN  Out([r.ts EXCEPT !._root = r.p], Void, "none")

\* static Node* findAux(Node *p, const T &elem)
RECURSIVE TreeSet_findAux(_, _, _)
TreeSet_findAux(ts, p, e) ==
    IF p = nullptr THEN nullptr
    ELSE IF ts.node[p]._elem = e THEN p
    ELSE IF e < ts.node[p]._elem THEN TreeSet_findAux(ts, ts.node[p]._left, e)
    ELSE TreeSet_findAux(ts, ts.node[p]._right, e)

\* static Node* eraseAux(Node *p, const T &elem): the set afterwards and the
\* node returned
RECURSIVE TreeSet_eraseAux(_, _, _)
TreeSet_eraseAux(ts, p, e) ==
    IF p = nullptr THEN [ts |-> ts, p |-> nullptr]
    ELSE IF e = ts.node[p]._elem
    THEN LET r == Tree_eraseRoot(ts.node, p, NoTreeSetCell)
         IN  [ts |-> [ts EXCEPT !.node = r.node], p |-> r.p]
    ELSE IF e < ts.node[p]._elem
    THEN LET r == TreeSet_eraseAux(ts, ts.node[p]._left, e)
         IN  [ts |-> [r.ts EXCEPT !.node[p]._left = r.p], p |-> p]
    ELSE LET r == TreeSet_eraseAux(ts, ts.node[p]._right, e)
         IN  [ts |-> [r.ts EXCEPT !.node[p]._right = r.p], p |-> p]

\* void erase(const T &elem)
TreeSet_erase(ts, e) ==
    LET r == TreeSet_eraseAux(ts, ts._root, e)
    IN  Out([r.ts EXCEPT !._root = r.p], Void, "none")

\* bool contains(const T &elem) const, bool empty() const
TreeSet_observers(ts, e) ==
    [contains |-> Returned(TreeSet_findAux(ts, ts._root, e) # nullptr),
     empty |-> Returned(ts._root = nullptr)]

\* ------------------------------------------------------------------ iterators of TreeMap and TreeSet
\* Iterator and ConstIterator of TreeMap and of TreeSet have the same code
\* but for the name of the field they read; konst tells a ConstIterator.

\* The loop of firstInOrder(): the iterator afterwards and the node reached.
RECURSIVE Tree_firstInOrderLoop(_, _, _)
Tree_firstInOrderLoop(node, it, p) ==
    IF node[p]._left # nullptr
    THEN Tree_firstInOrderLoop(node,
             [it EXCEPT !._ancestors = Stack_push(it._ancestors, p).obj], node[p]._left)
    ELSE [it |-> it, p |-> p]

\* firstInOrder() that keeps no ancestors.
Tree_firstInOrderForgets(node, it, p) ==
    IF p = nullptr THEN [it |-> it, p |-> nullptr]
    ELSE [it |-> it, p |-> Tree_firstInOrderLoop(node, it, p).p]

\* Node *firstInOrder(Node *p)
Tree_firstInOrder(node, it, p) ==
    IF p = nullptr THEN [it |-> it, p |-> nullptr] ELSE Tree_firstInOrderLoop(node, it, p)

\* Iterator(Node *current), ConstIterator(Node *current)
Tree_Iterator(node, current, konst) ==
    LET r == Tree_firstInOrder(node,
                 [alive |-> TRUE, konst |-> konst, _current |-> nullptr,
                  _ancestors |-> Stack_init, _idx |-> 0], current)
    IN  [r.it EXCEPT !._current = r.p]

\* next() that steps without the test for the end.
Tree_nextUnchecked(node, it) ==
    IF it._current # nullptr /\ node[it._current]._right # nullptr
    THEN LET r == Tree_firstInOrder(node, it, node[it._current]._right)
         IN  Out([r.it EXCEPT !._current = r.p], Void, "none")
    ELSE IF Stack_observers(it._ancestors).empty.value
    THEN Out([it EXCEPT !._current = nullptr], Void, "none")
    ELSE Out([it EXCEPT !._current = Stack_observers(it._ancestors).top.value,
                        !._ancestors = Stack_pop(it._ancestors).obj], Void, "none")

\* void next()
Tree_next(node, it) ==
    IF it._current = nullptr THEN Out(it, Throw("InvalidAccessException"), "none")
    ELSE IF node[it._current]._right # nullptr
    THEN LET r == Tree_firstInOrder(node, it, node[it._current]._right)
         IN  Out([r.it EXCEPT !._current = r.p], Void, "none")
    ELSE IF Stack_observers(it._ancestors).empty.value
    THEN Out([it EXCEPT !._current = nullptr], Void, "none")
    ELSE Out([it EXCEPT !._current = Stack_observers(it._ancestors).top.value,
                        !._ancestors = Stack_pop(it._ancestors).obj], Void, "none")

\* const K &key() const, V &value() of TreeMap's iterators
TreeMap_Iterator_observers(tm, it) ==
    [key |-> IF it._current = nullptr THEN Throw("InvalidAccessException")
             ELSE Returned(tm.node[it._current]._key),
     value |-> IF it._current = nullptr THEN Throw("InvalidAccessException")
               ELSE Returned(tm.node[it._current]._value)]

\* const T &elem() const, const T& operator*() const of TreeSet's iterators
TreeSet_Iterator_observers(ts, it) ==
    [elem |-> IF it._current = nullptr THEN Throw("InvalidAccessException")
              ELSE Returned(ts.node[it._current]._elem),
     star |-> IF it._current = nullptr THEN Throw("InvalidAccessException")
              ELSE Returned(ts.node[it._current]._elem)]

\* ------------------------------------------------------------------ iterators of List and HashMap
\* An iterator of a List or a HashMap: _ancestors is not a field of it, _idx
\* a field of HashMap's only.  Iterator and ConstIterator have the same code.
Iterator(current, idx, konst) ==
    [alive |-> TRUE, konst |-> konst, _current |-> current, _ancestors |-> NoStack,
     _idx |-> idx]

\* The loop of at(): the node idx links after aux.
RECURSIVE List_atLoop(_, _, _)
List_atLoop(l, aux, idx) ==
    IF idx = 0 THEN aux ELSE List_atLoop(l, l.node[aux]._next, idx - 1)

\* const T &at(unsigned int idx) const
List_at(l, idx) ==
    IF idx >= l._size THEN Throw("InvalidAccessException")
    ELSE Returned(l.node[List_atLoop(l, l._first, idx)]._elem)

\* void next() of List's iterators
List_Iterator_next(l, it) ==
    IF it._current = nullptr THEN Out(it, Throw("InvalidAccessException"), "none")
    ELSE Out([it EXCEPT !._current = l.node[it._current]._next], Void, "none")

\* const T &_elem() const, const T& operator*() const, T& operator*() of
\* List's iterators
List_Iterator_observers(l, it) ==
    [elem |-> IF it._current = nullptr THEN Throw("InvalidAccessException")
              ELSE Returned(l.node[it._current]._elem),
     star |-> IF it._current = nullptr THEN Throw("InvalidAccessException")
              ELSE Returned(l.node[it._current]._elem)]

\* Iterator erase(const Iterator &it): the list afterwards, the iterator
\* returned (it itself when the call throws) and how the call ended.
List_erase(l, it) ==
    IF it._current = nullptr
    THEN [obj |-> l, it |-> it, ret |-> Throw("InvalidAccessException")]
    ELSE IF it._current = l._first
    THEN LET l1 == List_pop_front(l).obj
         IN  [obj |-> l1, it |-> Iterator(l1._first, 0, FALSE), ret |-> Void]
    ELSE IF it._current = l._last
    THEN [obj |-> List_pop_back(l).obj, it |-> Iterator(nullptr, 0, FALSE), ret |-> Void]
    ELSE [obj |-> List_deleteElem(l, it._current),
          it |-> Iterator(l.node[it._current]._next, 0, FALSE), ret |-> Void]

\* insert that links the new node behind the iterator's element.
List_insertBehind(l, e, it) ==
    IF l._first = it._current THEN List_push_front(l, e)
    ELSE IF it._current = nullptr THEN List_push_back(l, e)
    ELSE IF it._current = l._last THEN List_push_back(l, e)
    ELSE Out(List_insertElem(l, e, it._current, l.node[it._current]._next), Void, "none")

\* void insert(const T &_elem, const Iterator &it)
List_insert(l, e, it) ==
    IF l._first = it._current THEN List_push_front(l, e)
    ELSE IF it._current = nullptr THEN List_push_back(l, e)
    ELSE Out(List_insertElem(l, e, l.node[it._current]._prev, it._current), Void, "none")

\* The loop that never looks at the last bin.
RECURSIVE HashMap_skipEmptyBinsShort(_, _, _)
HashMap_skipEmptyBinsShort(mp, n, idx) ==
    IF n = nullptr /\ idx < mp._binCount - 2
    THEN HashMap_skipEmptyBinsShort(mp, mp._bins[idx + 2], idx + 1)
    ELSE [n |-> n, idx |-> idx]

\* The loop of begin(), cbegin() and next() of HashMap: from node n of bin
\* idx to the first node of the next bin that has one; _bins[idx] of the code
\* is _bins[idx + 1] here.
RECURSIVE HashMap_skipEmptyBins(_, _, _)
HashMap_skipEmptyBins(mp, n, idx) ==
    IF n = nullptr /\ idx < mp._binCount - 1
    THEN HashMap_skipEmptyBins(mp, mp._bins[idx + 2], idx + 1)
    ELSE [n |-> n, idx |-> idx]

\* Iterator begin() const, ConstIterator cbegin() const
HashMap_begin(mp, konst) ==
    LET r == HashMap_skipEmptyBins(mp, mp._bins[1], 0)
    IN  Iterator(r.n, r.idx, konst)

\* Iterator end() const, ConstIterator cend() const
HashMap_end(mp, konst) == Iterator(nullptr, 0, konst)

\* void next() of HashMap's iterators
HashMap_Iterator_next(mp, it) ==
    IF it._current = nullptr THEN Out(it, Throw("InvalidAccessException"), "none")
    ELSE LET r == HashMap_skipEmptyBins(mp, mp.node[it._current]._next, it._idx)
         IN  Out([it EXCEPT !._current = r.n, !._idx = r.idx], Void, "none")

\* const K &key() const, V &value() const of HashMap's iterators
HashMap_Iterator_observers(mp, it) ==
    [key |-> IF it._current = nullptr THEN Throw("InvalidAccessException")
             ELSE Returned(mp.node[it._current]._key),
     value |-> IF it._current = nullptr THEN Throw("InvalidAccessException")
               ELSE Returned(mp.node[it._current]._value)]

\* ------------------------------------------------------------------ copy constructors and assignments
\* In copy(this, other), free(this) and assign(this, other) the nodes of both
\* objects are in one memory, this.node: other gives the fields of the
\* source only.  A copy constructor is copy() on an object whose fields the
\* member initialisers have set; copy() assigns every other field.

\* void free() of Stack
Stack_free(s) == [s EXCEPT !._data = <<>>]

\* copy() that leaves out the top element.
Stack_copyShort(this, other) ==
    [this EXCEPT !._max = other._size + INITIAL_CAPACITY,
                 !._size = other._size,
                 !._data = [i \in 1..(other._size + INITIAL_CAPACITY) |->
                               IF i < other._size THEN other._data[i] ELSE 0]]

\* void copy(const Stack &other)
Stack_copy(this, other) ==
    [this EXCEPT !._max = other._size + INITIAL_CAPACITY,
                 !._size = other._size,
                 !._data = [i \in 1..(other._size + INITIAL_CAPACITY) |->
                               IF i <= other._size THEN other._data[i] ELSE 0]]

\* bool operator==(const Stack<T> &rhs) const
Stack_equals(this, rhs) ==
    IF this._size # rhs._size THEN FALSE
    ELSE \A i \in 1..this._size : this._data[i] = rhs._data[i]

\* ------------------------------------------------------------------ find of TreeMap and TreeSet
\* The loop of TreeMap::find: the ancestors pushed and the node reached.
RECURSIVE TreeMap_findLoop(_, _, _, _)
TreeMap_findLoop(tm, ancestors, p, key) ==
    IF p # nullptr /\ (tm.node[p]._key < key \/ key < tm.node[p]._key)
    THEN IF key < tm.node[p]._key
         THEN TreeMap_findLoop(tm, Stack_push(ancestors, p).obj, tm.node[p]._left, key)
         ELSE TreeMap_findLoop(tm, ancestors, tm.node[p]._right, key)
    ELSE [ancestors |-> ancestors, p |-> p]

\* find() that returns the node without the ancestors.
TreeMap_findNoAncestors(tm, key) ==
    LET r == TreeMap_findLoop(tm, Stack_init, tm._root, key)
    IN  [alive |-> TRUE, konst |-> FALSE, _current |-> r.p,
         _ancestors |-> Stack_init, _idx |-> 0]

\* Iterator find(const K &key): ret is default-constructed, and
\* ret._ancestors = ancestors is Stack::operator=.
TreeMap_find(tm, key) ==
    LET r == TreeMap_findLoop(tm, Stack_init, tm._root, key)
    IN  [alive |-> TRUE, konst |-> FALSE, _current |-> r.p,
         _ancestors |-> IF r.p # nullptr
                        THEN Stack_copy(Stack_free(Stack_init), r.ancestors)
                        ELSE Stack_init,
         _idx |-> 0]

\* The loop of TreeSet::find
RECURSIVE TreeSet_findLoop(_, _, _, _)
TreeSet_findLoop(ts, ancestors, p, e) ==
    IF p # nullptr /\ ts.node[p]._elem # e
    THEN IF ts.node[p]._elem > e
         THEN TreeSet_findLoop(ts, Stack_push(ancestors, p).obj, ts.node[p]._left, e)
         ELSE TreeSet_findLoop(ts, ancestors, ts.node[p]._right, e)
    ELSE [ancestors |-> ancestors, p |-> p]

\* Iterator find(const T &e)
TreeSet_find(ts, e) ==
    LET r == TreeSet_findLoop(ts, Stack_init, ts._root, e)
    IN  [alive |-> TRUE, konst |-> FALSE, _current |-> r.p,
         _ancestors |-> IF r.p # nullptr
                        THEN Stack_copy(Stack_free(Stack_init), r.ancestors)
                        ELSE Stack_init,
         _idx |-> 0]

\* static void free(Node *n) of LinkedListStack, Queue and List, and
\* freeNodes(Node *n) of HashMap: the memory afterwards; blank is a node that
\* is not allocated.
RECURSIVE Chain_free(_, _, _)
Chain_free(node, n, blank) ==
    IF n = nullptr THEN node
    ELSE Chain_free([node EXCEPT ![n] = blank], node[n]._next, blank)

\* The loop of copy() of LinkedListStack and of Queue: the memory and _prev
\* when it ends.
RECURSIVE Chain_copyLoop(_, _, _)
Chain_copyLoop(node, _current, _prev) ==
    IF node[_current]._next = nullptr THEN [node |-> node, _prev |-> _prev]
    ELSE LET c == node[_current]._next
             n == newCell(node)
         IN  Chain_copyLoop([node EXCEPT ![n] = [alloc |-> TRUE, _elem |-> node[c]._elem,
                                                 _next |-> nullptr],
                                         ![_prev]._next = n], c, n)

\* The loop of operator== of LinkedListStack, Queue and List
RECURSIVE Chain_same(_, _, _)
Chain_same(node, p1, p2) ==
    IF p1 = nullptr \/ p2 = nullptr THEN TRUE
    ELSE IF node[p1]._elem # node[p2]._elem THEN FALSE
    ELSE Chain_same(node, node[p1]._next, node[p2]._next)

\* void free() of LinkedListStack
LinkedListStack_free(s) == [s EXCEPT !.node = Chain_free(s.node, s._top, NoCell)]

\* copy() that takes the nodes of other for its own.
LinkedListStack_copyShallow(this, other) ==
    [this EXCEPT !._top = other._top, !._size = other._size]

\* void copy(const LinkedListStack &other)
LinkedListStack_copy(this, other) ==
    IF other._top = nullptr THEN [this EXCEPT !._top = nullptr, !._size = 0]
    ELSE LET n == newCell(this.node)
             r == Chain_copyLoop([this.node EXCEPT ![n] =
                                     [alloc |-> TRUE, _elem |-> this.node[other._top]._elem,
                                      _next |-> nullptr]], other._top, n)
         IN  [this EXCEPT !.node = r.node, !._top = n, !._size = other._size]

\* bool operator==(const LinkedListStack<T> &rhs) const
LinkedListStack_equals(this, rhs) ==
    IF this._size # rhs._size THEN FALSE ELSE Chain_same(this.node, this._top, rhs._top)

\* void free() of Queue
Queue_free(q) == [q EXCEPT !.node = Chain_free(q.node, q._first, NoCell)]

\* void copy(const Queue &other)
Queue_copy(this, other) ==
    IF other._first = nullptr
    THEN [this EXCEPT !._first = nullptr, !._last = nullptr, !._size = 0]
    ELSE LET n == newCell(this.node)
             r == Chain_copyLoop([this.node EXCEPT ![n] =
                                     [alloc |-> TRUE, _elem |-> this.node[other._first]._elem,
                                      _next |-> nullptr]], other._first, n)
         IN  [this EXCEPT !.node = r.node, !._first = n, !._last = r._prev,
                          !._size = other._size]

\* bool operator==(const Queue<T> &rhs) const
Queue_equals(this, rhs) ==
    IF this._size # rhs._size THEN FALSE ELSE Chain_same(this.node, this._first, rhs._first)

\* void free() of List
List_free(l) ==
    [l EXCEPT !.node = Chain_free(l.node, l._first, NoListCell),
              !._first = nullptr, !._last = nullptr]

\* The loop of copy() of List
RECURSIVE List_copyLoop(_, _)
List_copyLoop(l, curr) ==
    IF curr = nullptr THEN l
    ELSE List_copyLoop(List_push_back(l, l.node[curr]._elem).obj, l.node[curr]._next)

\* void copy(const List<T> &other)
List_copy(this, other) ==
    List_copyLoop([this EXCEPT !._first = nullptr, !._size = 0], other._first)

\* bool operator==(const List<T> &rhs) const
List_equals(this, rhs) ==
    IF this._size # rhs._size THEN FALSE ELSE Chain_same(this.node, this._first, rhs._first)

\* The loop of free() of HashMap over the bins from i on
RECURSIVE HashMap_freeBins(_, _)
HashMap_freeBins(mp, i) ==
    IF i > mp._binCount THEN mp
    ELSE HashMap_freeBins([mp EXCEPT !.node = Chain_free(mp.node, mp._bins[i], NoMapCell)],
                          i + 1)

\* void free() of HashMap
HashMap_free(mp) == [HashMap_freeBins(mp, 1) EXCEPT !._bins = <<>>]

\* The inner loop of copy() of HashMap: the nodes from n on are copied at the
\* head of bin i.
RECURSIVE HashMap_copyBin(_, _, _)
HashMap_copyBin(mp, n, i) ==
    IF n = nullptr THEN mp
    ELSE LET c == newMapCell(mp.node, mp.node[n]._key)
         IN  HashMap_copyBin([mp EXCEPT !.node[c] = [alloc |-> TRUE, _key |-> mp.node[n]._key,
                                                     _value |-> mp.node[n]._value,
                                                     _next |-> mp._bins[i]],
                                        !._bins[i] = c],
                             mp.node[n]._next, i)

\* The outer loop of copy() of HashMap
RECURSIVE HashMap_copyBins(_, _, _)
HashMap_copyBins(mp, other, i) ==
    IF i > mp._binCount THEN mp
    ELSE HashMap_copyBins(HashMap_copyBin(mp, other._bins[i], i), other, i + 1)

\* void copy(const HashMap<K, V, Hash> &other)
HashMap_copy(this, other) ==
    HashMap_copyBins([this EXCEPT !._binCount = other._binCount,
                                  !._entryCount = other._entryCount,
                                  !._bins = [i \in 1..other._binCount |-> nullptr]],
                     other, 1)

\* static void free(Node *n) of TreeMap and TreeSet: the memory afterwards
RECURSIVE Tree_free(_, _, _)
Tree_free(node, n, blank) ==
    IF n = nullptr THEN node
    ELSE [Tree_free(Tree_free(node, node[n]._left, blank), node[n]._right, blank)
             EXCEPT ![n] = blank]

\* static Node* copyAux(Node *root) of TreeMap and TreeSet: the memory
\* afterwards and the node returned
RECURSIVE Tree_copyAux(_, _)
Tree_copyAux(node, root) ==
    IF root = nullptr THEN [node |-> node, p |-> nullptr]
    ELSE LET l == Tree_copyAux(node, node[root]._left)
             r == Tree_copyAux(l.node, node[root]._right)
             n == newCell(r.node)
         IN  [node |-> [r.node EXCEPT ![n] = [node[root] EXCEPT !._left = l.p,
                                                                !._right = r.p]],
              p |-> n]

\* void free() of TreeMap
TreeMap_free(tm) == [tm EXCEPT !.node = Tree_free(tm.node, tm._root, NoTreeMapCell)]

\* void copy(const TreeMap &other)
TreeMap_copy(this, other) ==
    LET r == Tree_copyAux(this.node, other._root)
    IN  [this EXCEPT !.node = r.node, !._root = r.p, !._size = other._size]

\* void free() of TreeSet
TreeSet_free(ts) == [ts EXCEPT !.node = Tree_free(ts.node, ts._root, NoTreeSetCell)]

\* void copy(const TreeSet &other)
TreeSet_copy(this, other) ==
    LET r == Tree_copyAux(this.node, other._root)
    IN  [this EXCEPT !.node = r.node, !._root = r.p]

\* ------------------------------------------------------------------ programs of one container
\* A call of a member function of a container: out is what the function
\* leaves behind.  The trees of the program are not involved.
PeerCall(name, arg, out) ==
    /\ fault = "none"
    /\ fault' = out.fault
    /\ ret' = out.ret
    /\ last' = [op |-> name, h |-> 0, cmp |-> arg, was |-> <<nullptr, nullptr, nullptr>>]
    /\ UNCHANGED <<heap, live, _root, cin, smart>>

\* The elements pushed on a container that holds n: any element while the
\* container is short, one that depends on n afterwards.
PushElems(n) == IF n < MaxVaried THEN Elems ELSE {1 + (n % MaxElem)}

StackCall(name, arg, out) ==
    /\ stack.alive
    /\ PeerCall(name, arg, out)
    /\ stack' = out.obj
    /\ UNCHANGED <<lstack, queue, list, slist, map, rest>>

LinkedListStackCall(name, arg, out) ==
    /\ lstack.alive
    /\ PeerCall(name, arg, out)
    /\ lstack' = out.obj
    /\ UNCHANGED <<stack, queue, list, slist, map, rest>>

QueueCall(name, arg, out) ==
    /\ queue.alive
    /\ PeerCall(name, arg, out)
    /\ queue' = out.obj
    /\ UNCHANGED <<stack, lstack, list, slist, map, rest>>

ListCall(name, arg, out) ==
    /\ list.alive
    /\ PeerCall(name, arg, out)
    /\ list' = out.obj
    /\ UNCHANGED <<stack, lstack, queue, slist, map, rest>>

ListLinkedSingleCall(name, arg, out) ==
    /\ slist.alive
    /\ PeerCall(name, arg, out)
    /\ slist' = out.obj
    /\ UNCHANGED <<stack, lstack, queue, list, map, rest>>

\* The program has one container, freshly constructed.
InitPeers ==
    /\ heap = [n \in Addrs |-> NoNode]
    /\ fault = "none"
    /\ live = [h \in Handles |-> FALSE]
    /\ _root = [h \in Handles |-> nullptr]
    /\ last = [op |-> "main", h |-> 0, cmp |-> 0, was |-> <<nullptr, nullptr, nullptr>>]
    /\ ret = Void
    /\ cin = NoInput
    /\ smart = NoSmart
    /\ map = NoHashMap
    /\ NoRest
    /\ \E class \in {"Stack", "LinkedListStack", "Queue", "List", "ListLinkedSingle"} :
       \E junk \in Tokens :
          /\ stack = IF class = "Stack" THEN Stack_init ELSE NoStack
          /\ lstack = IF class = "LinkedListStack" THEN LinkedListStack_init
                      ELSE NoLinkedListStack
          /\ queue = IF class = "Queue" THEN Queue_init ELSE NoQueue
          /\ list = IF class = "List" THEN List_init ELSE NoList
          /\ slist = IF class = "ListLinkedSingle" THEN ListLinkedSingle_init(junk)
                     ELSE NoListLinkedSingle

NextPeers ==
    \/ \E e \in PushElems(stack._size) :
         stack._size < MaxLen /\ StackCall("Stack::push", e, Stack_push(stack, e))
    \/ StackCall("Stack::pop", 0, Stack_pop(stack))
    \/ StackCall("Stack::top", 0, Out(stack, Stack_observers(stack).top, "none"))
    \/ StackCall("Stack::empty", 0, Out(stack, Stack_observers(stack).empty, "none"))
    \/ StackCall("Stack::size", 0, Out(stack, Stack_observers(stack).size, "none"))
    \/ \E e \in Elems :
         /\ newCell(lstack.node) # nullptr
         /\ LinkedListStackCall("LinkedListStack::push", e, LinkedListStack_push(lstack, e))
    \/ LinkedListStackCall("LinkedListStack::pop", 0, LinkedListStack_pop(lstack))
    \/ LinkedListStackCall("LinkedListStack::top", 0,
                           Out(lstack, LinkedListStack_observers(lstack).top, "none"))
    \/ LinkedListStackCall("LinkedListStack::empty", 0,
                           Out(lstack, LinkedListStack_observers(lstack).empty, "none"))
    \/ LinkedListStackCall("LinkedListStack::size", 0,
                           Out(lstack, LinkedListStack_observers(lstack).size, "none"))
    \/ \E e \in Elems :
         /\ newCell(queue.node) # nullptr
         /\ QueueCall("Queue::push_back", e, Queue_push_back(queue, e))
    \/ QueueCall("Queue::pop_front", 0, Queue_pop_front(queue))
    \/ QueueCall("Queue::front", 0, Out(queue, Queue_observers(queue).front, "none"))
    \/ QueueCall("Queue::empty", 0, Out(queue, Queue_observers(queue).empty, "none"))
    \/ QueueCall("Queue::size", 0, Out(queue, Queue_observers(queue).size, "none"))
    \/ \E e \in Elems :
         /\ newCell(list.node) # nullptr
         /\ ListCall("List::push_front", e, List_push_front(list, e))
    \/ \E e \in Elems :
         /\ newCell(list.node) # nullptr
         /\ ListCall("List::push_back", e, List_push_back(list, e))
    \/ ListCall("List::pop_front", 0, List_pop_front(list))
    \/ ListCall("List::pop_back", 0, List_pop_back(list))
    \/ ListCall("List::front", 0, Out(list, List_observers(list).front, "none"))
    \/ ListCall("List::back", 0, Out(list, List_observers(list).back, "none"))
    \/ ListCall("List::empty", 0, Out(list, List_observers(list).empty, "none"))
    \/ ListCall("List::size", 0, Out(list, List_observers(list).size, "none"))
    \/ \E e \in Elems :
         /\ newCell(slist.node) # nullptr
         /\ ListLinkedSingleCall("ListLinkedSingle::push_front", e,
                                 ListLinkedSingle_push_front(slist, e))
    \/ \E e \in Elems :
         /\ newCell(slist.node) # nullptr
         /\ ListLinkedSingleCall("ListLinkedSingle::push_back", e,
                                 ListLinkedSingle_push_back(slist, e))
    \/ ListLinkedSingleCall("ListLinkedSingle::pop_front", 0, ListLinkedSingle_pop_front(slist))
    \/ ListLinkedSingleCall("ListLinkedSingle::pop_back", 0, ListLinkedSingle_pop_back(slist))
    \/ ListLinkedSingleCall("ListLinkedSingle::front", 0, ListLinkedSingle_front(slist))
    \/ ListLinkedSingleCall("ListLinkedSingle::back", 0, ListLinkedSingle_back(slist))
    \/ ListLinkedSingleCall("ListLinkedSingle::empty", 0,
                            Out(slist, ListLinkedSingle_observers(slist).empty, "none"))
    \/ ListLinkedSingleCall("ListLinkedSingle::size", 0,
                            Out(slist, ListLinkedSingle_observers(slist).size, "none"))

SpecPeers == InitPeers /\ [][NextPeers]_vars

HashMapCall(name, arg, out) ==
    /\ map.alive
    /\ PeerCall(name, arg, out)
    /\ map' = out.obj
    /\ UNCHANGED <<stack, lstack, queue, list, slist, rest>>

\* The program has one HashMap<int, int>, freshly constructed.
InitMap ==
    /\ heap = [n \in Addrs |-> NoNode]
    /\ fault = "none"
    /\ live = [h \in Handles |-> FALSE]
    /\ _root = [h \in Handles |-> nullptr]
    /\ last = [op |-> "main", h |-> 0, cmp |-> 0, was |-> <<nullptr, nullptr, nullptr>>]
    /\ ret = Void
    /\ cin = NoInput
    /\ smart = NoSmart
    /\ stack = NoStack /\ lstack = NoLinkedListStack /\ queue = NoQueue
    /\ list = NoList /\ slist = NoListLinkedSingle
    /\ NoRest
    /\ map = HashMap_init

\* The values inserted under a key: any value under the key in the middle of
\* the three that share a bin, the value V() under the others.
InsertVals(key) == IF key = INITIAL_BIN_COUNT THEN Vals ELSE {0}

\* The calls on a HashMap with keys from K.
NextMapOver(K) ==
    \/ \E key \in K : \E value \in InsertVals(key) :
         HashMapCall("insert", <<key, value>>, HashMap_insert(map, key, value))
    \/ \E key \in K : HashMapCall("erase", key, HashMap_erase(map, key))
    \/ \E key \in K : HashMapCall("operator[]", key, HashMap_subscript(map, key))
    \/ \E key \in K :
         HashMapCall("at", key, Out(map, HashMap_observers(map, key).at, "none"))
    \/ \E key \in K :
         HashMapCall("contains", key, Out(map, HashMap_observers(map, key).contains, "none"))
    \/ HashMapCall("empty", 0, Out(map, HashMap_observers(map, 0).empty, "none"))
    \/ HashMapCall("size", 0, Out(map, HashMap_observers(map, 0).size, "none"))

NextMap == NextMapOver(Keys)

SpecMap == InitMap /\ [][NextMap]_vars

\* ------------------------------------------------------------------ programs of one search tree
\* A call on the TreeMap, the TreeSet or the iterator of the program: was is
\* the node that held the key of the call and its child links when the call
\* began (nullptr when no node held it).
TreeCall(name, arg, was, out) ==
    /\ fault = "none"
    /\ fault' = out.fault
    /\ ret' = out.ret
    /\ last' = [op |-> name, h |-> 0, cmp |-> arg, was |-> was]
    /\ UNCHANGED <<heap, live, _root, cin, smart>>
    /\ UNCHANGED <<stack, lstack, queue, list, slist, map, twin>>

NoWas == <<nullptr, nullptr, nullptr>>

TreeMapCall(name, arg, out) ==
    /\ tmap.alive
    /\ LET p == TreeMap_findAux(tmap, tmap._root, arg[1])
       IN  TreeCall(name, arg,
                    IF p = nullptr THEN NoWas
                    ELSE <<p, tmap.node[p]._left, tmap.node[p]._right>>, out)
    /\ tmap' = out.obj
    /\ UNCHANGED <<tset, iter>>

TreeSetCall(name, arg, out) ==
    /\ tset.alive
    /\ LET p == TreeSet_findAux(tset, tset._root, arg[1])
       IN  TreeCall(name, arg,
                    IF p = nullptr THEN NoWas
                    ELSE <<p, tset.node[p]._left, tset.node[p]._right>>, out)
    /\ tset' = out.obj
    /\ UNCHANGED <<tmap, iter>>

\* A call that makes, moves, reads or destroys the iterator of the program.
IterCall(name, out) ==
    /\ TreeCall(name, <<0>>, NoWas, out)
    /\ iter' = out.obj
    /\ UNCHANGED <<tmap, tset>>

\* The program has one TreeMap<int, int> or one TreeSet<int>, freshly
\* constructed, and no iterator.
InitTree ==
    /\ heap = [n \in Addrs |-> NoNode]
    /\ fault = "none"
    /\ live = [h \in Handles |-> FALSE]
    /\ _root = [h \in Handles |-> nullptr]
    /\ last = [op |-> "main", h |-> 0, cmp |-> <<0>>, was |-> NoWas]
    /\ ret = Void
    /\ cin = NoInput
    /\ smart = NoSmart
    /\ stack = NoStack /\ lstack = NoLinkedListStack /\ queue = NoQueue
    /\ list = NoList /\ slist = NoListLinkedSingle /\ map = NoHashMap
    /\ iter = NoIter /\ twin = NoTwin
    /\ \/ tmap = TreeMap_init /\ tset = NoTreeSet
       \/ tmap = NoTreeMap /\ tset = TreeSet_init

\* The calls on a TreeMap; no call changes the map while an iterator on it
\* is alive.
NextTreeMapCalls ==
    \/ \E key \in TreeKeys, value \in Vals :
         ~iter.alive /\ TreeMapCall("insert", <<key, value>>, TreeMap_insert(tmap, key, value))
    \/ \E key \in TreeKeys :
         ~iter.alive /\ TreeMapCall("erase", <<key>>, TreeMap_erase(tmap, key))
    \/ \E key \in TreeKeys :
         ~iter.alive /\ TreeMapCall("operator[]", <<key>>, TreeMap_subscript(tmap, key))
    \/ \E key \in TreeKeys :
         TreeMapCall("at", <<key>>, Out(tmap, TreeMap_observers(tmap, key).at, "none"))
    \/ \E key \in TreeKeys :
         TreeMapCall("contains", <<key>>, Out(tmap, TreeMap_observers(tmap, key).contains, "none"))
    \/ TreeMapCall("empty", <<0>>, Out(tmap, TreeMap_observers(tmap, 0).empty, "none"))
    \/ TreeMapCall("size", <<0>>, Out(tmap, TreeMap_observers(tmap, 0).size, "none"))

\* The calls that make, move, read and destroy an iterator on the TreeMap.
NextTreeMapIterator ==
    \/ \E konst \in BOOLEAN :
         /\ tmap.alive
         /\ IterCall(IF konst THEN "cbegin" ELSE "begin",
                     Out(Tree_Iterator(tmap.node, tmap._root, konst), Void, "none"))
    \/ \E konst \in BOOLEAN :
         /\ tmap.alive
         /\ IterCall(IF konst THEN "cend" ELSE "end",
                     Out(Tree_Iterator(tmap.node, nullptr, konst), Void, "none"))
    \/ \E name \in {"next", "operator++"} :
         tmap.alive /\ iter.alive /\ IterCall(name, Tree_next(tmap.node, iter))
    \/ tmap.alive /\ iter.alive
         /\ IterCall("key", Out(iter, TreeMap_Iterator_observers(tmap, iter).key, "none"))
    \/ tmap.alive /\ iter.alive
         /\ IterCall("value", Out(iter, TreeMap_Iterator_observers(tmap, iter).value, "none"))
    \/ tmap.alive /\ iter.alive /\ IterCall("~Iterator", Out(NoIter, Void, "none"))

NextTreeMap == NextTreeMapCalls \/ NextTreeMapIterator

NextTreeSet ==
    \/ \E e \in TreeKeys :
         ~iter.alive /\ TreeSetCall("insert", <<e>>, TreeSet_insert(tset, e))
    \/ \E e \in TreeKeys :
         ~iter.alive /\ TreeSetCall("erase", <<e>>, TreeSet_erase(tset, e))
    \/ \E e \in TreeKeys :
         TreeSetCall("contains", <<e>>, Out(tset, TreeSet_observers(tset, e).contains, "none"))
    \/ TreeSetCall("empty", <<0>>, Out(tset, TreeSet_observers(tset, 0).empty, "none"))
    \/ \E konst \in BOOLEAN :
         /\ tset.alive
         /\ IterCall(IF konst THEN "cbegin" ELSE "begin",
                     Out(Tree_Iterator(tset.node, tset._root, konst), Void, "none"))
    \/ \E konst \in BOOLEAN :
         /\ tset.alive
         /\ IterCall(IF konst THEN "cend" ELSE "end",
                     Out(Tree_Iterator(tset.node, nullptr, konst), Void, "none"))
    \/ \E name \in {"next", "operator++"} :
         tset.alive /\ iter.alive /\ IterCall(name, Tree_next(tset.node, iter))
    \/ tset.alive /\ iter.alive
         /\ IterCall("elem", Out(iter, TreeSet_Iterator_observers(tset, iter).elem, "none"))
    \/ tset.alive /\ iter.alive
         /\ IterCall("operator*", Out(iter, TreeSet_Iterator_observers(tset, iter).star, "none"))
    \/ tset.alive /\ iter.alive /\ IterCall("~Iterator", Out(NoIter, Void, "none"))

NextTree == NextTreeMap \/ NextTreeSet

SpecTree == InitTree /\ [][NextTree]_vars

\* ------------------------------------------------------------------ programs of one map
\* The program has one HashMap<int, int>, given keys of MoreKeys, or one
\* TreeMap<int, int>.
InitMaps == InitMap \/ (InitTree /\ tmap.alive)

\* The calls on the HashMap: the ones that put a key in, take one out or
\* ask for the value of one; one key is given either value.
NextMapsHashMap ==
    \/ \E key \in MoreKeys : \E value \in InsertVals(key) :
         HashMapCall("insert", <<key, value>>, HashMap_insert(map, key, value))
    \/ \E key \in MoreKeys : HashMapCall("erase", key, HashMap_erase(map, key))
    \/ \E key \in MoreKeys : HashMapCall("operator[]", key, HashMap_subscript(map, key))
    \/ \E key \in MoreKeys :
         HashMapCall("at", key, Out(map, HashMap_observers(map, key).at, "none"))

NextMaps ==
    \/ NextMapsHashMap
    \/ NextTreeMapCalls

SpecMaps == InitMaps /\ [][NextMaps]_vars

\* ------------------------------------------------------------------ programs of one container and an iterator
\* A call on the List of the program or on its iterator.
ListStep(name, arg, l, it, r) ==
    /\ list.alive
    /\ PeerCall(name, arg, Out(l, r, "none"))
    /\ list' = l
    /\ iter' = it
    /\ UNCHANGED <<stack, lstack, queue, slist, map, tmap, tset, twin>>

\* A call on the HashMap of the program or on its iterator.
HashMapStep(name, arg, mp, it, r) ==
    /\ map.alive
    /\ PeerCall(name, arg, Out(mp, r, "none"))
    /\ map' = mp
    /\ iter' = it
    /\ UNCHANGED <<stack, lstack, queue, list, slist, tmap, tset, twin>>

\* The keys given to the HashMap that is iterated: 0 and 8 share a bin.
IterKeys == {0, 1, 8}

\* The program has one List<int>, one HashMap<int, int>, one TreeMap<int, int>
\* or one TreeSet<int>, freshly constructed, and no iterator.
InitIter == InitTree \/ InitMap \/ (InitPeers /\ list.alive)

\* The calls on a List and its iterator; push_back and pop_front are not
\* called while an iterator is alive.
NextListIterator ==
    \/ \E e \in Elems :
         /\ ~iter.alive /\ newCell(list.node) # nullptr
         /\ ListStep("push_back", e, List_push_back(list, e).obj, iter, Void)
    \/ ~iter.alive /\ ListStep("pop_front", 0, List_pop_front(list).obj, iter, List_pop_front(list).ret)
    \/ \E idx \in 0..MaxCells : ListStep("List::at", idx, list, iter, List_at(list, idx))
    \/ \E konst \in BOOLEAN :
         ListStep(IF konst THEN "cbegin" ELSE "begin", 0, list,
                  Iterator(list._first, 0, konst), Void)
    \/ \E konst \in BOOLEAN :
         ListStep(IF konst THEN "cend" ELSE "end", 0, list, Iterator(nullptr, 0, konst), Void)
    \/ \E name \in {"next", "operator++"} :
         /\ iter.alive
         /\ ListStep(name, 0, list, List_Iterator_next(list, iter).obj,
                     List_Iterator_next(list, iter).ret)
    \/ iter.alive /\ ListStep("elem", 0, list, iter, List_Iterator_observers(list, iter).elem)
    \/ iter.alive /\ ListStep("operator*", 0, list, iter, List_Iterator_observers(list, iter).star)
    \/ /\ iter.alive /\ ~iter.konst
       /\ LET r == List_erase(list, iter) IN ListStep("List::erase", 0, r.obj, r.it, r.ret)
    \/ iter.alive /\ ListStep("~Iterator", 0, list, NoIter, Void)

\* The calls on a HashMap and its iterator; insert and erase are not called
\* while an iterator is alive.
NextHashMapIterator ==
    \/ \E key \in IterKeys :
         /\ ~iter.alive
         /\ HashMapStep("insert", <<key, 0>>, HashMap_insert(map, key, 0).obj, iter, Void)
    \/ \E key \in IterKeys :
         ~iter.alive /\ HashMapStep("erase", key, HashMap_erase(map, key).obj, iter, Void)
    \/ \E konst \in BOOLEAN :
         HashMapStep(IF konst THEN "cbegin" ELSE "begin", 0, map, HashMap_begin(map, konst), Void)
    \/ \E konst \in BOOLEAN :
         HashMapStep(IF konst THEN "cend" ELSE "end", 0, map, HashMap_end(map, konst), Void)
    \/ \E name \in {"next", "operator++"} :
         /\ iter.alive
         /\ HashMapStep(name, 0, map, HashMap_Iterator_next(map, iter).obj,
                        HashMap_Iterator_next(map, iter).ret)
    \/ iter.alive /\ HashMapStep("key", 0, map, iter, HashMap_Iterator_observers(map, iter).key)
    \/ iter.alive
         /\ HashMapStep("value", 0, map, iter, HashMap_Iterator_observers(map, iter).value)
    \/ iter.alive /\ HashMapStep("~Iterator", 0, map, NoIter, Void)

NextIter ==
    \/ NextTree
    \/ NextListIterator
    \/ NextHashMapIterator

SpecIter == InitIter /\ [][NextIter]_vars

\* Every class with partial operations: the programs of trees and the
\* programs of one container.
InitPartial == InitBoth \/ InitPeers

NextPartial ==
    \/ NoPeers /\ NextBoth
    \/ NextPeers

SpecPartial == InitPartial /\ [][NextPartial]_vars

\* ------------------------------------------------------------------ reference notions
\* The child links of node n that are not null.
Kids(hp, n) == {hp[n]._left, hp[n]._right} \ {nullptr}

\* The nodes reachable from the nodes of S through child links.
RECURSIVE Closure(_, _)
Closure(hp, S) ==
    LET T == S \cup UNION {Kids(hp, n) : n \in S}
    IN  IF T = S THEN S ELSE Closure(hp, T)

Below(hp, p) == Closure(hp, {p} \ {nullptr})

\* The roots of the live BinTree objects.
Roots == {_root[h] : h \in {k \in Handles : live[k]}} \ {nullptr}

\* The tree a pointer denotes, as a value: <<>> or <<left, elem, right>>.
RECURSIVE TreeAt(_, _, _)
TreeAt(hp, p, d) ==
    IF p = nullptr THEN <<>>
    ELSE IF d = 0 THEN <<"cycle">>
    ELSE IF ~hp[p].alloc THEN <<"dangling">>
    ELSE <<TreeAt(hp, hp[p]._left, d - 1), hp[p]._elem, TreeAt(hp, hp[p]._right, d - 1)>>

Tree(hp, p) == TreeAt(hp, p, MaxNodes + 1)

\* The number of references to node n: live objects rooted at it and child
\* links of allocated nodes to it, left and right counted separately.
RefCount(hp, lv, rt, n) ==
    Cardinality({h \in Handles : lv[h] /\ rt[h] = n})
    + Cardinality({k \in Addrs : hp[k].alloc /\ hp[k]._left = n})
    + Cardinality({k \in Addrs : hp[k].alloc /\ hp[k]._right = n})

\* Node n is the same node, with the same element and children, after the step.
SameNode(n) ==
    /\ heap'[n].alloc
    /\ heap'[n]._elem = heap[n]._elem
    /\ heap'[n]._left = heap[n]._left
    /\ heap'[n]._right = heap[n]._right

\* The nodes allocated and the nodes deleted by the step.
Allocated == {n \in Addrs : ~heap[n].alloc /\ heap'[n].alloc}
Deleted == {n \in Addrs : heap[n].alloc /\ ~heap'[n].alloc}

\* What the observers are to compute, on a tree value tv = <<>> or <<l, e, r>>.
RECURSIVE RefSize(_)
RefSize(tv) == IF tv = <<>> THEN 0 ELSE 1 + RefSize(tv[1]) + RefSize(tv[3])

RECURSIVE RefLeaves(_)
RefLeaves(tv) ==
    IF tv = <<>> THEN 0
    ELSE (IF tv[1] = <<>> /\ tv[3] = <<>> THEN 1 ELSE 0) + RefLeaves(tv[1]) + RefLeaves(tv[3])

\* The lengths (in nodes) of the paths from the root to a leaf.
RECURSIVE RefPaths(_)
RefPaths(tv) ==
    IF tv = <<>> THEN {}
    ELSE IF tv[1] = <<>> /\ tv[3] = <<>> THEN {1}
    ELSE {1 + n : n \in RefPaths(tv[1]) \cup RefPaths(tv[3])}

RefDepth(tv) ==
    IF tv = <<>> THEN 0
    ELSE CHOOSE n \in RefPaths(tv) : \A k \in RefPaths(tv) : k <= n

RECURSIVE RefPre(_)
RefPre(tv) == IF tv = <<>> THEN <<>> ELSE <<tv[2]>> \o RefPre(tv[1]) \o RefPre(tv[3])

RECURSIVE RefIn(_)
RefIn(tv) == IF tv = <<>> THEN <<>> ELSE RefIn(tv[1]) \o <<tv[2]>> \o RefIn(tv[3])

RECURSIVE RefPost(_)
RefPost(tv) == IF tv = <<>> THEN <<>> ELSE RefPost(tv[1]) \o RefPost(tv[3]) \o <<tv[2]>>

\* The elements at distance d from the root, left to right.
RECURSIVE RefLevel(_, _)
RefLevel(tv, d) ==
    IF tv = <<>> THEN <<>>
    ELSE IF d = 0 THEN <<tv[2]>>
    ELSE RefLevel(tv[1], d - 1) \o RefLevel(tv[3], d - 1)

RECURSIVE RefLevelsFrom(_, _)
RefLevelsFrom(tv, d) ==
    IF RefLevel(tv, d) = <<>> THEN <<>> ELSE RefLevel(tv, d) \o RefLevelsFrom(tv, d + 1)

RefLevels(tv) == RefLevelsFrom(tv, 0)

\* The tree values of exactly n nodes with elements from E.
RECURSIVE RefTreesOfSize(_, _)
RefTreesOfSize(n, E) ==
    IF n = 0 THEN {<<>>}
    ELSE UNION {{<<l, e, r>> : l \in RefTreesOfSize(i, E), e \in E,
                               r \in RefTreesOfSize(n - 1 - i, E)} : i \in 0..(n - 1)}

\* A tree value written in pre-order, s standing for every empty subtree.
RECURSIVE RefWritePre(_, _)
RefWritePre(tv, s) ==
    IF tv = <<>> THEN <<s>>
    ELSE <<tv[2]>> \o RefWritePre(tv[1], s) \o RefWritePre(tv[3], s)

\* Sequence w is the beginning of sequence s.
StartsWith(s, w) == Len(w) <= Len(s) /\ SubSeq(s, 1, Len(w)) = w

\* The addresses operator new can still hand out.
\* The elements of an array-backed stack, top first.
RefStack(s) == [i \in 1..s._size |-> s._data[s._size + 1 - i]]

\* The nodes linked from c by _next, at most fuel of them.
RECURSIVE RefChain(_, _, _)
RefChain(node, c, fuel) ==
    IF c = nullptr \/ fuel = 0 THEN <<>>
    ELSE <<c>> \o RefChain(node, node[c]._next, fuel - 1)

\* The elements of a linked container whose first node is c.
RefElems(node, c) ==
    LET ch == RefChain(node, c, Cardinality(DOMAIN node) + 1)
    IN  [i \in 1..Len(ch) |-> node[ch[i]]._elem]

\* The contents of the container of the program, front (or top) first.
RefContents ==
    IF stack.alive THEN RefStack(stack)
    ELSE IF lstack.alive THEN RefElems(lstack.node, lstack._top)
    ELSE IF queue.alive THEN RefElems(queue.node, queue._first)
    ELSE RefElems(list.node, list._first)

\* The nodes of bin i - 1 of a HashMap, head first.
RefBin(mp, i) == RefChain(mp.node, mp._bins[i], Cardinality(MapCells) + 1)

\* The places of a HashMap where a node is linked: <<i, j>> is place j of
\* bin i - 1.
RefPlaces(mp) ==
    {p \in (1..mp._binCount) \X (1..(Cardinality(MapCells) + 1)) : p[2] <= Len(RefBin(mp, p[1]))}

\* The (key, value) entries and the keys a HashMap stores.
RefEntries(mp) ==
    UNION {LET bin == RefBin(mp, i)
           IN  {<<mp.node[bin[j]]._key, mp.node[bin[j]]._value>> : j \in 1..Len(bin)} :
           i \in 1..mp._binCount}

RefKeys(mp) == {e[1] : e \in RefEntries(mp)}

FreeAddrs == {n \in Addrs : ~heap[n].alloc}

\* The tree of the receiver of the last call, and of its right operand.
Receiver == Tree(heap, _root[last.h])
Operand == Tree(heap, _root[last.cmp])

\* ------------------------------------------------------------------ claims
\* Object t2 and every node below it are the same after the step.
C1_Intact(t2) ==
    /\ fault' = "none"
    /\ live'[t2] /\ _root'[t2] = _root[t2]
    /\ \A n \in Below(heap, _root[t2]) : SameNode(n)
    /\ Tree(heap', _root'[t2]) = Tree(heap, _root[t2])

\* C1: when an object t1 is destroyed or reassigned, every other live object
\* t2 (such as t2 = t1.left()) keeps its root, every node reachable from t2
\* stays allocated with the same element and children, so that t2.elem(),
\* t2.left() and t2.right() succeed and return what they returned before.
C1_SharedSubtreeSurvives ==
    [][last'.op \in {"~BinTree", "operator="} =>
          \A t2 \in Handles \ {last'.h} : live[t2] => C1_Intact(t2)]_vars

\* t1 was destroyed, its root was deleted, and the object holding its former
\* left child is the only reference left to that child.
C1_Witness ==
    /\ last.op = "~BinTree"
    /\ last.was[1] # nullptr /\ ~heap[last.was[1]].alloc
    /\ last.was[2] # nullptr /\ heap[last.was[2]].alloc
    /\ heap[last.was[2]]._refs = 1
    /\ \E t2 \in Handles : live[t2] /\ _root[t2] = last.was[2]
    /\ fault = "none"

\* C2: a node is allocated iff it is reachable from a live object; an
\* allocated node has a positive count and nothing refers to a deleted node
\* (a node is deleted when, and only when, its count has dropped to zero).
C2_AllocatedIffReachable ==
    /\ fault = "none"
    /\ \A n \in Addrs :
        /\ heap[n].alloc <=> n \in Closure(heap, Roots)
        /\ heap[n].alloc => heap[n]._refs >= 1
        /\ ~heap[n].alloc => RefCount(heap, live, _root, n) = 0

\* A reassignment deleted the receiver's old root while the old right child,
\* still referenced elsewhere, stays allocated.
C2_Witness ==
    /\ last.op = "operator="
    /\ last.was[1] # nullptr /\ ~heap[last.was[1]].alloc
    /\ last.was[3] # nullptr /\ heap[last.was[3]].alloc
    /\ last.was[3] \in Closure(heap, Roots)

\* C3: no node is ever deleted twice (a second delete is a fault), and once
\* no BinTree object is alive no node is allocated: every node was deleted.
C3_AllDeletedOnce ==
    /\ fault = "none"
    /\ (\A h \in Handles : ~live[h]) => \A n \in Addrs : ~heap[n].alloc

\* The last object was destroyed, and its root had the same node as left and
\* as right child.
C3_Witness ==
    /\ \A h \in Handles : ~live[h]
    /\ last.op = "~BinTree"
    /\ last.was[2] # nullptr /\ last.was[2] = last.was[3]
    /\ \A n \in Addrs : ~heap[n].alloc

\* The links the new node holds to node k, and the state after the constructor.
C4_Links(k, iz, dr) ==
    (IF k = _root[iz] THEN 1 ELSE 0) + (IF k = _root[dr] THEN 1 ELSE 0)

C4_Post(h, iz, e, dr) ==
    /\ fault' = "none"
    /\ Deleted = {}
    /\ \E n \in Addrs :
        /\ Allocated = {n}
        /\ live'[h] /\ _root'[h] = n
        /\ heap'[n] = [alloc |-> TRUE, _elem |-> e, _left |-> _root[iz],
                       _right |-> _root[dr], _refs |-> 1]
        /\ \A k \in Addrs \ {n} :
            heap'[k] = IF heap[k].alloc
                       THEN [heap[k] EXCEPT !._refs = @ + C4_Links(k, iz, dr)]
                       ELSE heap[k]
    /\ \A k \in Handles \ {h} : live'[k] = live[k] /\ _root'[k] = _root[k]

\* C4: BinTree(iz, elem, dr) allocates exactly one node, with element elem,
\* children the roots of iz and dr and count 1; each child root's count grows
\* by one per link (by two when iz and dr have the same root); no other node
\* and no other object changes.
C4_CompositeShares ==
    [][last'.op = "BinTree(iz,elem,dr)" =>
          \A iz, dr \in Handles, e \in Elems :
              BinTreeComposite(last'.h, iz, e, dr) => C4_Post(last'.h, iz, e, dr)]_vars

\* A composite was built with the same non-empty tree as left and right child.
C4_Witness ==
    /\ last.op = "BinTree(iz,elem,dr)"
    /\ heap[_root[last.h]]._left # nullptr
    /\ heap[_root[last.h]]._left = heap[_root[last.h]]._right
    /\ heap[heap[_root[last.h]]._left]._refs >= 3

\* The state after left() or right() returned child c in object h.
C5_Post(h, c) ==
    /\ fault' = "none"
    /\ live'[h] /\ _root'[h] = c
    /\ Allocated = {} /\ Deleted = {}
    /\ heap' = IF c = nullptr THEN heap ELSE [heap EXCEPT ![c]._refs = @ + 1]
    /\ \A k \in Handles \ {h} : live'[k] = live[k] /\ _root'[k] = _root[k]

\* C5: left() and right() on a non-empty tree return an object whose root is
\* the receiver's child node itself (empty if there is none), allocate and
\* delete nothing, add exactly one to that child's count and change nothing
\* else, so that a repeated call returns the same node.
C5_ChildAliased ==
    [][last'.op \in {"left", "right"} /\ ret' = "void" =>
          \A t \in Handles :
              /\ left(last'.h, t) => C5_Post(last'.h, heap[_root[t]]._left)
              /\ right(last'.h, t) => C5_Post(last'.h, heap[_root[t]]._right)]_vars

\* left() returned an object rooted at the left child of a live tree, and
\* another object returned earlier is rooted at that same node.
C5_Witness ==
    /\ last.op = "left" /\ ret = "void"
    /\ _root[last.h] # nullptr
    /\ \E t, k \in Handles \ {last.h} :
        /\ t # k /\ live[t] /\ live[k]
        /\ _root[t] # nullptr /\ heap[_root[t]]._left = _root[last.h]
        /\ _root[k] = _root[last.h]
    /\ heap[_root[last.h]]._refs = 3

\* Every count is the number of references; the states after copy and assignment.
C6_Consistent ==
    \A n \in Addrs :
        IF heap'[n].alloc
        THEN heap'[n]._refs = RefCount(heap', live', _root', n) /\ heap'[n]._refs >= 1
        ELSE RefCount(heap', live', _root', n) = 0

C6_CopyPost(h, other) ==
    /\ fault' = "none"
    /\ live'[h] /\ _root'[h] = _root[other]
    /\ Allocated = {} /\ Deleted = {}
    /\ heap' = IF _root[other] = nullptr THEN heap
               ELSE [heap EXCEPT ![_root[other]]._refs = @ + 1]

C6_AssignPost(h, other) ==
    /\ fault' = "none"
    /\ live'[h] /\ _root'[h] = _root[other]
    /\ live'[other] /\ _root'[other] = _root[other]
    /\ Allocated = {}
    /\ \A n \in Below(heap, _root[other]) : SameNode(n)
    /\ C6_Consistent
    /\ h = other => heap' = heap
    /\ (h # other /\ _root[h] # nullptr) =>
          IF heap[_root[h]]._refs = 1
          THEN _root[h] \in Deleted
          ELSE /\ heap'[_root[h]].alloc
               /\ heap'[_root[h]]._refs =
                    heap[_root[h]]._refs - 1 + (IF _root[other] = _root[h] THEN 1 ELSE 0)

\* C6: the copy constructor takes the source's root and adds one to its count,
\* allocating nothing.  Assignment h = other releases h's old root (one less
\* reference, deleted if that was the last) and then takes other's root; in
\* every case (self-assignment, same root, other a subtree of h) h ends with
\* other's root, every node reachable from other is still allocated and
\* unchanged, and every count equals the number of references.
C6_CopyAndAssign ==
    [][/\ last'.op = "BinTree(other)" =>
            \A other \in Handles : BinTreeCopy(last'.h, other) => C6_CopyPost(last'.h, other)
       /\ last'.op = "operator=" =>
            \A other \in Handles :
                operatorAssign(last'.h, other) => C6_AssignPost(last'.h, other)]_vars

\* An assignment such as a = a.left(): the receiver now holds its old left
\* child and its old root, which had no other reference, was deleted.
C6_Witness ==
    /\ last.op = "operator="
    /\ last.was[1] # nullptr /\ ~heap[last.was[1]].alloc
    /\ last.was[2] # nullptr /\ _root[last.h] = last.was[2]
    /\ heap[last.was[2]].alloc
    /\ fault = "none"

\* C7: no call changes the element or the child links of a node that stays
\* allocated, so the tree seen through an object whose root is not reassigned
\* never changes, whatever is done through other objects; a const member
\* function (elem, empty, ==, !=, traversals, metrics) changes no count, no
\* node and no object.
C7_NodesImmutable ==
    [][/\ \A n \in Addrs : (heap[n].alloc /\ heap'[n].alloc) => SameNode(n)
       /\ \A t \in Handles :
            (live[t] /\ live'[t] /\ _root'[t] = _root[t]) =>
                Tree(heap', _root'[t]) = Tree(heap, _root[t])
       /\ last'.op \in ObserverOps =>
            (heap' = heap /\ live' = live /\ _root' = _root /\ fault' = fault)]_vars

\* An object rooted at a proper subtree of a live tree t1 was destroyed, and
\* t1 still holds that subtree.
C7_Witness ==
    /\ last.op = "~BinTree"
    /\ last.was[1] # nullptr
    /\ \E t1 \in Handles :
        /\ live[t1] /\ _root[t1] # last.was[1]
        /\ last.was[1] \in Below(heap, _root[t1])
        /\ Tree(heap, last.was[1]) # <<"dangling">>

\* C8: operator== is true iff the two trees are the same value (both empty,
\* or equal elements at the root and equal left and right subtrees), whether
\* or not they share nodes; operator!= is its negation.
C8_StructuralEquality ==
    /\ last.op = "operator==" => ret = (Receiver = Operand)
    /\ last.op = "operator!=" => ret = (Receiver # Operand)

\* Two non-empty trees that share no node compared equal.
C8_Witness ==
    /\ last.op = "operator==" /\ ret = TRUE
    /\ _root[last.h] # nullptr /\ _root[last.cmp] # nullptr
    /\ Below(heap, _root[last.h]) \cap Below(heap, _root[last.cmp]) = {}

\* C9: preOrder lists root, left, right; inOrder left, root, right; postOrder
\* left, right, root; levels the elements level by level from the root, left
\* to right; each lists every node of the tree once, the empty tree gives <<>>.
C9_Traversals ==
    /\ last.op = "preOrder" => ret = RefPre(Receiver)
    /\ last.op = "inOrder" => ret = RefIn(Receiver)
    /\ last.op = "postOrder" => ret = RefPost(Receiver)
    /\ last.op = "levels" => ret = RefLevels(Receiver)
    /\ last.op \in {"preOrder", "inOrder", "postOrder", "levels"} =>
          /\ Len(ret) = RefSize(Receiver)
          /\ Receiver = <<>> => ret = <<>>

\* levels() was called on a tree of three levels whose breadth-first order
\* differs from its pre-order.
C9_Witness ==
    /\ last.op = "levels"
    /\ Len(ret) = 5
    /\ ret # preOrder(last.h)
    /\ ret = RefLevels(Receiver)

\* The tree with root 1, left leaf 2 and right leaf 3.
C10_Example == <<<<<<>>, 2, <<>>>>, 1, <<<<>>, 3, <<>>>>>>

\* C10: nodeCount is the number of nodes of the tree, leafCount the number of
\* nodes with two empty children, depth the number of nodes on the longest
\* path from the root to a leaf (0 for the empty tree, 1 for a leaf); the
\* tree 1(2, 3) gives 3, 2 and 2, and its inOrder is <<2, 1, 3>>.
C10_Metrics ==
    /\ last.op = "nodeCount" =>
          ret = RefSize(Receiver) /\ (Receiver = C10_Example => ret = 3)
    /\ last.op = "leafCount" =>
          ret = RefLeaves(Receiver) /\ (Receiver = C10_Example => ret = 2)
    /\ last.op = "depth" =>
          /\ ret = RefDepth(Receiver)
          /\ Receiver = <<>> => ret = 0
          /\ (Receiver # <<>> /\ Receiver[1] = <<>> /\ Receiver[3] = <<>>) => ret = 1
          /\ Receiver = C10_Example => ret = 2
    /\ (last.op = "inOrder" /\ Receiver = C10_Example) => ret = <<2, 1, 3>>

\* depth() was called on the tree 1(2, 3).
C10_Witness ==
    /\ last.op = "depth"
    /\ Receiver = C10_Example
    /\ ret = 2

\* The state after fromPreOrderInput read the written form w of tree tv into
\* object h.
C11_Post(h, tv, w) ==
    /\ Len(w) = 2 * RefSize(tv) + 1
    /\ fault' = "none"
    /\ live'[h]
    /\ Tree(heap', _root'[h]) = tv
    /\ ~cin'.failbit
    /\ cin'.buf = SubSeq(cin.buf, Len(w) + 1, Len(cin.buf))

\* C11: when the input starts with a tree of n nodes written in pre-order,
\* the sentinel (an element the tree does not hold) standing for every empty
\* subtree, that text has 2n+1 tokens and fromPreOrderInput(sentinel) takes
\* exactly those tokens from the input and returns a tree equal to the one
\* written (given n free addresses).
C11_PreOrderRoundTrip ==
    [][last'.op = "fromPreOrderInput" =>
          \A n \in 0..Cardinality(FreeAddrs) :
              \A tv \in RefTreesOfSize(n, Tokens \ {last'.cmp}) :
                  (~cin.failbit /\ StartsWith(cin.buf, RefWritePre(tv, last'.cmp)))
                  => C11_Post(last'.h, tv, RefWritePre(tv, last'.cmp))]_vars

\* A tree whose root has two children was read from seven tokens, the
\* sentinel being an element other than 0.
C11_Witness ==
    /\ last.op = "fromPreOrderInput" /\ ret = "void"
    /\ last.cmp # 0
    /\ _root[last.h] # nullptr
    /\ heap[_root[last.h]]._left # nullptr /\ heap[_root[last.h]]._right # nullptr
    /\ Len(RefWritePre(Tree(heap, _root[last.h]), last.cmp)) = 7
    /\ cin = NoInput

\* Every tree the program is given, with its in-order text.
C12_Texts(E) == {<<tv, InOrderText(tv)>> : tv \in InOrderTrees(E)}

\* The input ( ( . 2 . ) 1 ( . 3 . ) ) and the tree it denotes.
C12_ExampleInput ==
    <<OpenParen, OpenParen, Dot, 2, Dot, CloseParen, 1,
      OpenParen, Dot, 3, Dot, CloseParen, CloseParen>>

C12_ExampleTree == <<<<<<>>, 2, <<>>>>, 1, <<<<>>, 3, <<>>>>>>

\* The state after fromInOrderInput read the text w of tree tv into object h.
C12_Post(h, tv, w) ==
    /\ fault' = "none"
    /\ live'[h]
    /\ Tree(heap', _root'[h]) = tv
    /\ ~cin'.failbit
    /\ cin'.buf = SubSeq(cin.buf, Len(w) + 1, Len(cin.buf))

\* The input agrees with text w before token i, where w has the beginning of
\* a subtree and the input a token that is neither '.' nor '(', or where w
\* has the ')' after a right subtree and the input another token.
C12_BadToken(w, i) ==
    /\ i <= Len(cin.buf)
    /\ \/ w[i] \in {Dot, OpenParen} /\ cin.buf[i] \notin {Dot, OpenParen}
       \/ w[i] = CloseParen /\ cin.buf[i] # CloseParen
    /\ \A j \in 1..(i - 1) : cin.buf[j] = w[j]

C13_SmartEquivalent ==
    /\ fault = "none" /\ smart.fault = "none"
    /\ ret[1] = ret[2]
    /\ \A t \in Handles : live[t] =>
          /\ empty(t) = SmartIsEmpty(t)
          /\ Observers(t) = SmartObservers(t)
          /\ \A rhs \in Handles : live[rhs] =>
                /\ operatorEq(t, rhs) = SmartEq(t, rhs)
                /\ operatorNeq(t, rhs) = ~SmartEq(t, rhs)

\* Both variants hold a tree of two levels one of whose nodes has three
\* owners, after left() returned a child of it.
C13_Witness ==
    /\ last.op = "left" /\ ret = <<"void", "void">>
    /\ \E t \in Handles :
          /\ live[t] /\ depth(t) = 2 /\ SmartObservers(t).depth = 2
          /\ smart._root[last.h] = smart.heap[smart._root[t]]._left
    /\ smart._root[last.h] # nullptr
    /\ smart.heap[smart._root[last.h]].use_count = 3
    /\ heap[_root[last.h]]._refs = 3

\* The partial operations with the exception each throws on an empty receiver.
C14_Exception ==
    [op \in {"Stack::top", "Stack::pop", "LinkedListStack::top", "LinkedListStack::pop",
             "Queue::front", "Queue::pop_front",
             "List::front", "List::back", "List::pop_front", "List::pop_back"} |->
        IF op \in {"Queue::front", "Queue::pop_front"} THEN "EmptyQueueException"
        ELSE IF op \in {"List::front", "List::back", "List::pop_front", "List::pop_back"}
             THEN "EmptyListException"
        ELSE "EmptyStackException"]

\* C14: a partial operation called on an empty receiver throws the exception
\* of its class and changes nothing: top and pop of Stack and LinkedListStack,
\* front and pop_front of Queue, front, back, pop_front and pop_back of List
\* leave the container as it was; elem, left and right of an empty BinTree
\* throw EmptyTreeException, construct no object and leave every node (its
\* reference count included) and every object as it was.
C14_PartialOnEmpty ==
    [][/\ (last'.op \in DOMAIN C14_Exception /\ RefContents = <<>>) =>
            /\ ret' = Throw(C14_Exception[last'.op])
            /\ fault' = "none"
            /\ UNCHANGED peers
       /\ (last'.op = "elem" /\ empty(last'.h)) =>
            /\ ret' = "EmptyTreeException"
            /\ UNCHANGED <<heap, fault, live, _root>>
       /\ last'.op = "left" =>
            \A t \in Handles : (empty(t) /\ left(last'.h, t)) =>
                /\ ret' = "EmptyTreeException"
                /\ UNCHANGED <<heap, fault, live, _root>>
       /\ last'.op = "right" =>
            \A t \in Handles : (empty(t) /\ right(last'.h, t)) =>
                /\ ret' = "EmptyTreeException"
                /\ UNCHANGED <<heap, fault, live, _root>>]_vars

\* pop() has thrown on a Stack that had been filled and emptied again.
C14_Witness ==
    /\ last.op = "Stack::pop"
    /\ ret = Throw("EmptyStackException")
    /\ stack.alive /\ stack._size = 0
    /\ stack._data[1] \in Elems

\* C15: front(), back(), pop_front() and pop_back() of ListLinkedSingle, called
\* on an empty list, each fail (the assertion aborts the program), return no
\* value and leave the list as it was.
C15_FailOnEmpty ==
    [][(/\ last'.op \in {"ListLinkedSingle::front", "ListLinkedSingle::back",
                          "ListLinkedSingle::pop_front", "ListLinkedSingle::pop_back"}
        /\ ListLinkedSingle_observers(slist).empty.value) =>
            /\ fault' = "assert"
            /\ ret'.exit # "return"
            /\ slist' = slist]_vars

\* What top() (front() of a Queue), size() and empty() answer on the stack or
\* queue of the program, and what they answer on the sequence seq.
C16_Observers ==
    IF stack.alive
    THEN [first |-> Stack_observers(stack).top, size |-> Stack_observers(stack).size,
          empty |-> Stack_observers(stack).empty]
    ELSE IF lstack.alive
    THEN [first |-> LinkedListStack_observers(lstack).top,
          size |-> LinkedListStack_observers(lstack).size,
          empty |-> LinkedListStack_observers(lstack).empty]
    ELSE [first |-> Queue_observers(queue).front, size |-> Queue_observers(queue).size,
          empty |-> Queue_observers(queue).empty]

C16_RefObservers(seq) ==
    [first |-> IF seq = <<>>
               THEN Throw(IF queue.alive THEN "EmptyQueueException" ELSE "EmptyStackException")
               ELSE Returned(Head(seq)),
     size |-> Returned(Len(seq)),
     empty |-> Returned(seq = <<>>)]

C16_Ops ==
    {"Stack::push", "Stack::pop", "Stack::top", "Stack::size", "Stack::empty",
     "LinkedListStack::push", "LinkedListStack::pop", "LinkedListStack::top",
     "LinkedListStack::size", "LinkedListStack::empty",
     "Queue::push_back", "Queue::pop_front", "Queue::front", "Queue::size", "Queue::empty"}

\* C16: Stack (whatever its capacity has grown to), LinkedListStack and Queue
\* behave as a sequence: push puts the element at the top, push_back at the
\* back, pop and pop_front remove the first element (nothing when there is
\* none), the observers change nothing; after every call top() or front(),
\* size() and empty() answer what the sequence answers, which is also what a
\* call of one of them returns.
C16_SequenceModel ==
    [][last'.op \in C16_Ops =>
        /\ fault' = "none"
        /\ RefContents' =
              IF last'.op \in {"Stack::push", "LinkedListStack::push"}
              THEN <<last'.cmp>> \o RefContents
              ELSE IF last'.op = "Queue::push_back" THEN Append(RefContents, last'.cmp)
              ELSE IF /\ last'.op \in {"Stack::pop", "LinkedListStack::pop", "Queue::pop_front"}
                      /\ RefContents # <<>>
              THEN Tail(RefContents)
              ELSE RefContents
        /\ C16_Observers' = C16_RefObservers(RefContents')
        /\ last'.op \in {"Stack::top", "LinkedListStack::top", "Queue::front"} =>
              ret' = C16_RefObservers(RefContents).first
        /\ last'.op \in {"Stack::size", "LinkedListStack::size", "Queue::size"} =>
              ret' = C16_RefObservers(RefContents).size
        /\ last'.op \in {"Stack::empty", "LinkedListStack::empty", "Queue::empty"} =>
              ret' = C16_RefObservers(RefContents).empty]_vars

\* top() has answered on a Stack whose capacity has doubled twice and which
\* is filled beyond its first doubling.
C16_Witness ==
    /\ last.op = "Stack::top"
    /\ stack.alive
    /\ stack._max = 4 * INITIAL_CAPACITY
    /\ stack._size > INITIAL_CAPACITY
    /\ ret = Returned(Head(RefContents))

\* C17: in every state of a program that calls insert, erase and operator[]
\* on a HashMap, every linked node is allocated and sits in the bin
\* _hash(key) % _binCount, every stored key is linked at exactly one place,
\* size() is the number of stored keys and empty() holds iff it is zero.
C17_SizeCountsKeys ==
    /\ fault = "none"
    /\ \A p \in RefPlaces(map) :
          LET n == RefBin(map, p[1])[p[2]]
          IN  map.node[n].alloc /\ _hash(map.node[n]._key) % map._binCount = p[1] - 1
    /\ \A k \in RefKeys(map) :
          Cardinality({p \in RefPlaces(map) :
                          map.node[RefBin(map, p[1])[p[2]]]._key = k}) = 1
    /\ HashMap_observers(map, 0).size = Returned(Cardinality(RefKeys(map)))
    /\ HashMap_observers(map, 0).empty = Returned(Cardinality(RefKeys(map)) = 0)

\* After growth and erasures, operator[] has added a key to a bin that held
\* one already.
C17_Witness ==
    /\ last.op = "operator[]" /\ last.cmp = 0
    /\ map._binCount = 2 * INITIAL_BIN_COUNT
    /\ map._entryCount = 3
    /\ RefKeys(map) = {0, 8, 16}
    /\ Len(RefBin(map, 1)) = 2

\* C18: HashMap is a key-to-value map.  insert(k, v) makes the value of k v
\* and erase(k) removes k, each leaving every other key with its value (erase
\* of an absent key leaves everything); at, contains, size, empty and
\* operator[] of a present key leave everything; contains(k) answers whether k
\* is stored and at(k) returns its value (BadKeyException when there is none).
C18_ReferenceMap ==
    [][map.alive =>
        LET before == RefEntries(map)
            after == RefEntries(map')
            keys == {e[1] : e \in before}
        IN  /\ fault' = "none"
            /\ Cardinality(keys) = Cardinality(before)
            /\ after =
                  IF last'.op = "insert"
                  THEN {e \in before : e[1] # last'.cmp[1]} \cup {last'.cmp}
                  ELSE IF last'.op = "erase"
                  THEN {e \in before : e[1] # last'.cmp}
                  ELSE IF last'.op = "operator[]" /\ last'.cmp \notin keys
                  THEN before \cup {<<last'.cmp, 0>>}
                  ELSE before
            /\ last'.op = "contains" => ret' = Returned(last'.cmp \in keys)
            /\ last'.op = "at" =>
                  IF last'.cmp \in keys
                  THEN <<last'.cmp, ret'.value>> \in before /\ ret'.exit = "return"
                  ELSE ret' = Throw("BadKeyException")
            /\ last'.op = "operator[]" =>
                  <<last'.cmp, ret'.value>> \in after /\ ret'.exit = "return"]_vars

\* at(8) has returned the value inserted under a key that is not the first
\* of its bin, where key 0 has another value.
C18_Witness ==
    /\ last.op = "at" /\ last.cmp = 8
    /\ ret = Returned(1)
    /\ <<0, 0>> \in RefEntries(map)
    /\ Len(RefBin(map, 1)) = 3
    /\ map.node[RefBin(map, 1)[1]]._key # 8

\* The key of a call of insert or operator[].
C19_Key == IF last'.op = "insert" THEN last'.cmp[1] ELSE last'.cmp

\* C19: when a call makes the table grow, grow() doubles _binCount, leaves
\* _entryCount and the set of (key, value) entries as they were, links as
\* many nodes as were linked, each in bin _hash(key) % _binCount of the new
\* table, and allocates or frees no node: only _next of a node changes.  The
\* call then goes on from that table.
C19_GrowPreserves ==
    [][(map.alive /\ map'._binCount # map._binCount) =>
        LET g == HashMap_grow(map)
        IN  /\ g._binCount = 2 * map._binCount
            /\ Len(g._bins) = g._binCount
            /\ g._entryCount = map._entryCount
            /\ RefEntries(g) = RefEntries(map)
            /\ Cardinality(RefPlaces(g)) = Cardinality(RefPlaces(map))
            /\ \A p \in RefPlaces(g) :
                  _hash(g.node[RefBin(g, p[1])[p[2]]]._key) % g._binCount = p[1] - 1
            /\ \A c \in MapCells : g.node[c] = [map.node[c] EXCEPT !._next = g.node[c]._next]
            /\ map'._binCount = g._binCount
            /\ \A c \in MapCells :
                  (map'.node[c].alloc /\ map'.node[c]._key = C19_Key) \/ map'.node[c] = g.node[c]]_vars

\* The table has grown: the keys 0, 8 and 16, of one bin before, are in the
\* bins 0 and 8 of 16.
C19_Witness ==
    /\ last.op \in {"insert", "operator[]"}
    /\ map._binCount = 2 * INITIAL_BIN_COUNT
    /\ {map.node[c]._key : c \in {RefBin(map, 1)[j] : j \in 1..Len(RefBin(map, 1))}} = {0, 16}
    /\ Len(RefBin(map, 9)) = 1 /\ map.node[RefBin(map, 9)[1]]._key = 8

\* C20: a call of insert (operator[] calls it for an absent key) doubles
\* _binCount when 100 * _entryCount / _binCount exceeds 80 at the call and
\* leaves it otherwise; no other call changes it; it is always 8 * 2^k.
C20_GrowsAbove80 ==
    [][map.alive =>
        /\ map'._binCount =
              IF /\ \/ last'.op = "insert"
                    \/ last'.op = "operator[]" /\ C19_Key \notin RefKeys(map)
                 /\ 100 * map._entryCount > 80 * map._binCount
              THEN 2 * map._binCount
              ELSE map._binCount
        /\ \E k \in 0..MaxLen : map'._binCount = 8 * 2^k]_vars

\* insert was called for a key already stored in a table of 8 bins with 7
\* entries, and the table has 16 bins.
C20_Witness ==
    /\ last.op = "insert"
    /\ map._binCount = 16
    /\ map._entryCount = 7

\* ------------------------------------------------------------------ search trees as finite maps and sets
\* The nodes of the tree below p, read off the links alone.
RECURSIVE RefTreeNodes(_, _, _)
RefTreeNodes(node, p, fuel) ==
    IF p = nullptr \/ fuel = 0 THEN {}
    ELSE {p} \cup RefTreeNodes(node, node[p]._left, fuel - 1)
             \cup RefTreeNodes(node, node[p]._right, fuel - 1)

\* The finite map a TreeMap stands for, and the set a TreeSet stands for.
RefTreeEntries(tm) ==
    {<<tm.node[c]._key, tm.node[c]._value>> : c \in RefTreeNodes(tm.node, tm._root, MaxKey + 1)}
RefTreeKeys(tm) == {en[1] : en \in RefTreeEntries(tm)}
RefTreeSet(ts) == {ts.node[c]._elem : c \in RefTreeNodes(ts.node, ts._root, MaxKey + 1)}

\* C21: insert(k, v) on a TreeMap that already holds k replaces the value
\* stored under k: afterwards at(k) returns v, and size() and every other
\* entry are as before.
C21_InsertReplaces ==
    [][(tmap.alive /\ last'.op = "insert" /\ last'.cmp[1] \in RefTreeKeys(tmap))
       => LET k == last'.cmp[1]
              v == last'.cmp[2]
          IN  /\ TreeMap_observers(tmap', k).at = Returned(v)
              /\ TreeMap_observers(tmap', k).size = TreeMap_observers(tmap, k).size
              /\ {en \in RefTreeEntries(tmap') : en[1] # k}
                    = {en \in RefTreeEntries(tmap) : en[1] # k}]_vars

\* The loop  for (it = begin(); it != end(); it.next())  over a search tree:
\* the nodes it visits, in the order of the visits (cut off after MaxKey + 2
\* visits, more than any tree of the programs has nodes).
RECURSIVE IterateFrom(_, _, _)
IterateFrom(node, it, fuel) ==
    IF it._current = nullptr \/ fuel = 0 THEN <<>>
    ELSE <<it._current>> \o IterateFrom(node, Tree_next(node, it).obj, fuel - 1)

Iterate(node, root) == IterateFrom(node, Tree_Iterator(node, root, FALSE), MaxKey + 2)

\* C22: insert(e) on a TreeSet that holds e changes nothing (same nodes, same
\* links, same elements, as many steps of an iteration); insert(e) of an
\* element the set does not hold adds e and nothing else.
C22_InsertIsIdempotent ==
    [][(tset.alive /\ last'.op = "insert")
       => LET e == last'.cmp[1]
          IN  IF e \in RefTreeSet(tset)
              THEN /\ tset' = tset
                   /\ Len(Iterate(tset'.node, tset'._root)) = Len(Iterate(tset.node, tset._root))
              ELSE /\ RefTreeSet(tset') = RefTreeSet(tset) \cup {e}
                   /\ Len(Iterate(tset'.node, tset'._root))
                         = Len(Iterate(tset.node, tset._root)) + 1]_vars

\* insert(e) has just returned on a set of three elements or more that held e.
C22_Witness ==
    /\ tset.alive /\ last.op = "insert" /\ last.was[1] # nullptr
    /\ Cardinality(RefTreeSet(tset)) >= 3

\* The keys (elements) held by the nodes of a sequence of visits.
VisitedKeys(tm, w) == [i \in 1..Len(w) |-> tm.node[w[i]]._key]
VisitedElems(ts, w) == [i \in 1..Len(w) |-> ts.node[w[i]]._elem]

\* seq lists the members of set once each, in strictly ascending order.
Ascending(seq, set) ==
    /\ Len(seq) = Cardinality(set)
    /\ {seq[i] : i \in 1..Len(seq)} = set
    /\ \A i \in 1..(Len(seq) - 1) : seq[i] < seq[i + 1]

\* C23: whatever calls of insert, erase and operator[] built a TreeMap or a
\* TreeSet, the iteration from begin() or cbegin() by next() visits every key
\* once, in strictly ascending order, and reaches end() after as many steps as
\* there are keys; an iterator of the program that has made some of the steps
\* has the keys from its own on still to visit.
C23_InOrderIteration ==
    /\ tmap.alive =>
         /\ Ascending(VisitedKeys(tmap, Iterate(tmap.node, tmap._root)), RefTreeKeys(tmap))
         /\ iter.alive =>
              Ascending(VisitedKeys(tmap, IterateFrom(tmap.node, iter, MaxKey + 2)),
                        IF iter._current = nullptr THEN {}
                        ELSE {k \in RefTreeKeys(tmap) : k >= tmap.node[iter._current]._key})
    /\ tset.alive =>
         /\ Ascending(VisitedElems(tset, Iterate(tset.node, tset._root)), RefTreeSet(tset))
         /\ iter.alive =>
              Ascending(VisitedElems(tset, IterateFrom(tset.node, iter, MaxKey + 2)),
                        IF iter._current = nullptr THEN {}
                        ELSE {k \in RefTreeSet(tset) : k >= tset.node[iter._current]._elem})

\* An iterator over a TreeMap of three keys or more has just reached end()
\* by a call of next() that did not throw.
C23_Witness ==
    /\ tmap.alive /\ iter.alive /\ last.op \in {"next", "operator++"}
    /\ ret = Void /\ iter._current = nullptr
    /\ Cardinality(RefTreeKeys(tmap)) >= 3

\* C24: erase(k) on a TreeMap or a TreeSet leaves contains(k) false and every
\* other key present, with the value it had; erase of a key that is not
\* there changes nothing.  It holds whether the node of k has no child, one
\* child or two.
C24_EraseRemovesOnlyKey ==
    [][(last'.op = "erase")
       => LET k == last'.cmp[1]
          IN  /\ tmap.alive =>
                   /\ TreeMap_observers(tmap', k).contains = Returned(FALSE)
                   /\ \A j \in TreeKeys \ {k} :
                        /\ TreeMap_observers(tmap', j).contains = TreeMap_observers(tmap, j).contains
                        /\ TreeMap_observers(tmap', j).at = TreeMap_observers(tmap, j).at
                   /\ RefTreeEntries(tmap') = {en \in RefTreeEntries(tmap) : en[1] # k}
                   /\ k \notin RefTreeKeys(tmap) => tmap' = tmap
              /\ tset.alive =>
                   /\ TreeSet_observers(tset', k).contains = Returned(FALSE)
                   /\ \A j \in TreeKeys \ {k} :
                        TreeSet_observers(tset', j).contains = TreeSet_observers(tset, j).contains
                   /\ RefTreeSet(tset') = RefTreeSet(tset) \ {k}
                   /\ k \notin RefTreeSet(tset) => tset' = tset]_vars

\* erase(k) has just removed from a TreeMap a node with two children whose
\* successor was not its right child: the successor now stands in its place,
\* above both children.
C24_Witness ==
    /\ tmap.alive /\ last.op = "erase"
    /\ last.was[2] # nullptr /\ last.was[3] # nullptr
    /\ \E c \in TreeCells :
         /\ tmap.node[c].alloc /\ c # last.was[3]
         /\ tmap.node[c]._left = last.was[2] /\ tmap.node[c]._right = last.was[3]

\* C25: after any calls of insert, erase and operator[] on a TreeMap, size()
\* is the number of distinct keys the map holds, and empty() is true exactly
\* when size() is 0.
C25_SizeCountsKeys ==
    tmap.alive =>
        /\ TreeMap_observers(tmap, 0).size = Returned(Cardinality(RefTreeKeys(tmap)))
        /\ Cardinality(RefTreeNodes(tmap.node, tmap._root, MaxKey + 1))
              = Cardinality(RefTreeKeys(tmap))
        /\ TreeMap_observers(tmap, 0).empty
              = Returned(TreeMap_observers(tmap, 0).size.value = 0)

\* operator[] has just returned the entry of a key that a TreeMap of two keys
\* or more, and fewer than MaxKey, held already.
C25_Witness ==
    /\ tmap.alive /\ last.op = "operator[]" /\ last.was[1] # nullptr
    /\ tmap._size >= 2
    /\ \E c \in TreeCells : ~tmap.node[c].alloc

\* C26: at(k) on a HashMap or a TreeMap that does not hold k throws
\* BadKeyException and leaves the map as it was (entries, size, number of
\* bins, every node): it never inserts k.
C26_AtThrowsOnAbsentKey ==
    [][(last'.op = "at")
       => /\ (map.alive /\ last'.cmp \notin RefKeys(map))
                => /\ ret' = Throw("BadKeyException")
                   /\ map' = map
                   /\ RefEntries(map') = RefEntries(map)
                   /\ HashMap_observers(map', last'.cmp).size = HashMap_observers(map, last'.cmp).size
                   /\ HashMap_observers(map', last'.cmp).contains = Returned(FALSE)
          /\ (tmap.alive /\ last'.cmp[1] \notin RefTreeKeys(tmap))
                => /\ ret' = Throw("BadKeyException")
                   /\ tmap' = tmap
                   /\ RefTreeEntries(tmap') = RefTreeEntries(tmap)
                   /\ TreeMap_observers(tmap', last'.cmp[1]).size
                         = TreeMap_observers(tmap, last'.cmp[1]).size
                   /\ TreeMap_observers(tmap', last'.cmp[1]).contains = Returned(FALSE)]_vars

\* at(16) has just thrown on a HashMap that holds 0 and 8, of the bin of 16,
\* but not 16.
C26_Witness ==
    /\ map.alive /\ last.op = "at" /\ last.cmp = 16
    /\ ret = Throw("BadKeyException")
    /\ {0, 8} \subseteq RefKeys(map) /\ 16 \notin RefKeys(map)

\* C27: operator[](k) on a HashMap or a TreeMap that does not hold k adds k
\* with the value V(), makes size() one more and returns the entry of k,
\* also when the insertion makes the HashMap grow; on a map that holds k it
\* returns the entry of k and changes no size and no value.
C27_SubscriptFindsOrInserts ==
    [][(last'.op = "operator[]")
       => /\ map.alive =>
               LET k == last'.cmp
               IN  /\ ret' = HashMap_observers(map', k).at
                   /\ IF k \in RefKeys(map)
                      THEN /\ map' = map
                           /\ ret' = HashMap_observers(map, k).at
                      ELSE /\ RefEntries(map') = RefEntries(map) \cup {<<k, 0>>}
                           /\ HashMap_observers(map', k).size.value
                                 = HashMap_observers(map, k).size.value + 1
                           /\ ret' = Returned(0)
          /\ tmap.alive =>
               LET k == last'.cmp[1]
               IN  /\ ret' = TreeMap_observers(tmap', k).at
                   /\ IF k \in RefTreeKeys(tmap)
                      THEN /\ tmap' = tmap
                           /\ ret' = TreeMap_observers(tmap, k).at
                      ELSE /\ RefTreeEntries(tmap') = RefTreeEntries(tmap) \cup {<<k, 0>>}
                           /\ TreeMap_observers(tmap', k).size.value
                                 = TreeMap_observers(tmap, k).size.value + 1
                           /\ ret' = Returned(0)]_vars

\* operator[] has just added an eighth key, under the value V(), to a
\* HashMap that has grown to 16 bins and holds another value under the key 8.
C27_Witness ==
    /\ map.alive /\ last.op = "operator[]" /\ ret = Returned(0)
    /\ map._binCount = 2 * INITIAL_BIN_COUNT /\ map._entryCount = 8
    /\ <<8, 1>> \in RefEntries(map)

\* C28: on an iterator or a const iterator of a List, a HashMap, a TreeMap or
\* a TreeSet that equals end(), next(), operator++ and the dereferences
\* (elem, key, value, operator*) throw InvalidAccessException and leave the
\* iterator and the container as they were; so do List::erase(end()) and
\* List::at(idx) with idx >= size().
C28_MisuseThrows ==
    [][/\ (/\ iter.alive /\ iter._current = nullptr
           /\ last'.op \in {"next", "operator++", "elem", "key", "value", "operator*",
                            "List::erase"})
          => /\ ret' = Throw("InvalidAccessException")
             /\ iter' = iter
             /\ list' = list /\ map' = map /\ tmap' = tmap /\ tset' = tset
       /\ (last'.op = "List::at" /\ last'.cmp >= List_observers(list).size.value)
          => /\ ret' = Throw("InvalidAccessException")
             /\ iter' = iter
             /\ list' = list]_vars

\* next() has just thrown on an iterator of a HashMap of two keys or more
\* that had walked to the last bin and past its last node.
C28_Witness ==
    /\ map.alive /\ iter.alive /\ last.op = "next"
    /\ ret = Throw("InvalidAccessException")
    /\ iter._current = nullptr /\ iter._idx = map._binCount - 1
    /\ map._entryCount >= 2

\* ------------------------------------------------------------------ programs of two containers of one class
\* The program has an object a of one of seven classes and, once it has been
\* copy-constructed from a, an object b of the same class.  The nodes of
\* both are in one memory: a.node and b.node are the same function.  The
\* program adds to a and takes from a and from b, assigns a to b and a to
\* itself, compares them and destroys b.
CopyClasses == {"Stack", "LinkedListStack", "Queue", "List", "HashMap", "TreeMap", "TreeSet"}

\* The classes with an operator==.
EqClasses == {"Stack", "LinkedListStack", "Queue", "List"}

CopyCells == 1..MaxCopyCells
CopyKeys == 1..MaxCopyLen

\* The object a of the program, and its class.
First(cls) ==
    CASE cls = "Stack" -> stack
      [] cls = "LinkedListStack" -> lstack
      [] cls = "Queue" -> queue
      [] cls = "List" -> list
      [] cls = "HashMap" -> map
      [] cls = "TreeMap" -> tmap
      [] cls = "TreeSet" -> tset

CopyClass == CHOOSE cls \in CopyClasses : First(cls).alive

\* A freshly constructed object of the class, in a memory of its own.
Blank(cls) ==
    CASE cls = "Stack" -> Stack_init
      [] cls = "LinkedListStack" ->
            [LinkedListStack_init EXCEPT !.node = [c \in CopyCells |-> NoCell]]
      [] cls = "Queue" -> [Queue_init EXCEPT !.node = [c \in CopyCells |-> NoCell]]
      [] cls = "List" -> [List_init EXCEPT !.node = [c \in CopyCells |-> NoListCell]]
      [] cls = "HashMap" -> HashMap_init
      [] cls = "TreeMap" -> [TreeMap_init EXCEPT !.node = [c \in CopyCells |-> NoTreeMapCell]]
      [] cls = "TreeSet" -> [TreeSet_init EXCEPT !.node = [c \in CopyCells |-> NoTreeSetCell]]

\* Object y in the memory that object x has left.
Shared(cls, x, y) ==
    IF cls = "Stack" \/ ~y.alive THEN y ELSE [y EXCEPT !.node = x.node]

\* The calls that add to an object and the calls that take from it, with
\* their arguments <<element or key, value>>.  The trees lose one key only,
\* the middle one of three.
GrowArgs(cls) ==
    CASE cls = "HashMap" -> {<<0, v>> : v \in Vals} \cup {<<1, 0>>, <<8, 0>>}
      [] cls = "TreeMap" -> {<<k, k % (MaxVal + 1)>> : k \in CopyKeys}
      [] cls = "TreeSet" -> {<<k, 0>> : k \in CopyKeys}
      [] OTHER -> {<<e, 0>> : e \in Elems}

Grow(cls, x, arg) ==
    CASE cls = "Stack" -> Stack_push(x, arg[1])
      [] cls = "LinkedListStack" -> LinkedListStack_push(x, arg[1])
      [] cls = "Queue" -> Queue_push_back(x, arg[1])
      [] cls = "List" -> List_push_back(x, arg[1])
      [] cls = "HashMap" -> HashMap_insert(x, arg[1], arg[2])
      [] cls = "TreeMap" -> TreeMap_insert(x, arg[1], arg[2])
      [] cls = "TreeSet" -> TreeSet_insert(x, arg[1])

ShrinkArgs(cls) ==
    CASE cls = "HashMap" -> {<<k, 0>> : k \in IterKeys}
      [] cls \in {"TreeMap", "TreeSet"} -> {<<MaxCopyLen - 1, 0>>}
      [] OTHER -> {<<0, 0>>}

Shrink(cls, x, arg) ==
    CASE cls = "Stack" -> Stack_pop(x)
      [] cls = "LinkedListStack" -> LinkedListStack_pop(x)
      [] cls = "Queue" -> Queue_pop_front(x)
      [] cls = "List" -> List_pop_back(x)
      [] cls = "HashMap" -> HashMap_erase(x, arg[1])
      [] cls = "TreeMap" -> TreeMap_erase(x, arg[1])
      [] cls = "TreeSet" -> TreeSet_erase(x, arg[1])

\* How many elements (entries) the object holds, and how many nodes are free
\* in its memory.
Held(cls, x) ==
    CASE cls = "HashMap" -> x._entryCount
      [] cls = "TreeSet" -> Cardinality(RefTreeNodes(x.node, x._root, MaxCopyCells))
      [] OTHER -> x._size

FreeCells(cls, x) ==
    IF cls = "Stack" THEN MaxCopyLen
    ELSE Cardinality({c \in DOMAIN x.node : ~x.node[c].alloc})

\* free(), copy(other), operator==(rhs) and the destructor of the class
Free(cls, this) ==
    CASE cls = "Stack" -> Stack_free(this)
      [] cls = "LinkedListStack" -> LinkedListStack_free(this)
      [] cls = "Queue" -> Queue_free(this)
      [] cls = "List" -> List_free(this)
      [] cls = "HashMap" -> HashMap_free(this)
      [] cls = "TreeMap" -> TreeMap_free(this)
      [] cls = "TreeSet" -> TreeSet_free(this)

Copy(cls, this, other) ==
    CASE cls = "Stack" -> Stack_copy(this, other)
      [] cls = "LinkedListStack" -> LinkedListStack_copy(this, other)
      [] cls = "Queue" -> Queue_copy(this, other)
      [] cls = "List" -> List_copy(this, other)
      [] cls = "HashMap" -> HashMap_copy(this, other)
      [] cls = "TreeMap" -> TreeMap_copy(this, other)
      [] cls = "TreeSet" -> TreeSet_copy(this, other)

Equals(cls, this, rhs) ==
    CASE cls = "Stack" -> Stack_equals(this, rhs)
      [] cls = "LinkedListStack" -> LinkedListStack_equals(this, rhs)
      [] cls = "Queue" -> Queue_equals(this, rhs)
      [] cls = "List" -> List_equals(this, rhs)

\* X(const X &other) : ... { copy(other); }
CopyConstruct(cls, other) == Copy(cls, Shared(cls, other, Blank(cls)), other)

\* X &operator=(const X &other), same telling whether this == &other
Assign(cls, this, other, same) ==
    IF same THEN this ELSE Copy(cls, Free(cls, this), other)

\* A call of the program: a2 and b2 are the objects afterwards.
PairStep(name, arg, a2, b2, r) ==
    /\ PeerCall(name, arg, Out(a2, r, "none"))
    /\ stack' = IF CopyClass = "Stack" THEN a2 ELSE stack
    /\ lstack' = IF CopyClass = "LinkedListStack" THEN a2 ELSE lstack
    /\ queue' = IF CopyClass = "Queue" THEN a2 ELSE queue
    /\ list' = IF CopyClass = "List" THEN a2 ELSE list
    /\ map' = IF CopyClass = "HashMap" THEN a2 ELSE map
    /\ tmap' = IF CopyClass = "TreeMap" THEN a2 ELSE tmap
    /\ tset' = IF CopyClass = "TreeSet" THEN a2 ELSE tset
    /\ twin' = b2
    /\ UNCHANGED <<slist, iter>>

InitCopy ==
    /\ heap = [n \in Addrs |-> NoNode]
    /\ fault = "none"
    /\ live = [h \in Handles |-> FALSE]
    /\ _root = [h \in Handles |-> nullptr]
    /\ last = [op |-> "main", h |-> 0, cmp |-> <<0, 0>>, was |-> NoWas]
    /\ ret = Void
    /\ cin = NoInput
    /\ smart = NoSmart
    /\ slist = NoListLinkedSingle /\ iter = NoIter /\ twin = NoTwin
    /\ \E cls \in CopyClasses :
          /\ stack = IF cls = "Stack" THEN Blank(cls) ELSE NoStack
          /\ lstack = IF cls = "LinkedListStack" THEN Blank(cls) ELSE NoLinkedListStack
          /\ queue = IF cls = "Queue" THEN Blank(cls) ELSE NoQueue
          /\ list = IF cls = "List" THEN Blank(cls) ELSE NoList
          /\ map = IF cls = "HashMap" THEN Blank(cls) ELSE NoHashMap
          /\ tmap = IF cls = "TreeMap" THEN Blank(cls) ELSE NoTreeMap
          /\ tset = IF cls = "TreeSet" THEN Blank(cls) ELSE NoTreeSet

NextCopy ==
    LET cls == CopyClass
        a == First(cls)
        b == twin
    IN  \/ \E arg \in GrowArgs(cls) :
             /\ Held(cls, a) < MaxCopyLen /\ FreeCells(cls, a) > 0
             /\ LET a2 == Grow(cls, a, arg).obj
                IN  PairStep("a.grow", arg, a2, Shared(cls, a2, b), Void)
        \/ \E arg \in ShrinkArgs(cls) :
             LET a2 == Shrink(cls, a, arg)
             IN  PairStep("a.shrink", arg, a2.obj, Shared(cls, a2.obj, b), a2.ret)
        \/ \E arg \in ShrinkArgs(cls) :
             /\ b.alive
             /\ LET b2 == Shrink(cls, b, arg)
                IN  PairStep("b.shrink", arg, Shared(cls, b2.obj, a), b2.obj, b2.ret)
        \/ /\ ~b.alive /\ FreeCells(cls, a) >= Held(cls, a)
           /\ LET b2 == CopyConstruct(cls, a)
              IN  PairStep("b(a)", <<0, 0>>, Shared(cls, b2, a), b2, Void)
        \/ /\ b.alive /\ FreeCells(cls, Free(cls, b)) >= Held(cls, a)
           /\ LET b2 == Assign(cls, b, a, FALSE)
              IN  PairStep("b = a", <<0, 0>>, Shared(cls, b2, a), b2, Void)
        \/ PairStep("a = a", <<0, 0>>, Assign(cls, a, a, TRUE), b, Void)
        \/ /\ b.alive /\ cls \in EqClasses
           /\ PairStep("a == b", <<0, 0>>, a, b, Returned(Equals(cls, a, b)))
        \/ /\ b.alive
           /\ PairStep("~b", <<0, 0>>, Shared(cls, Free(cls, b), a), NoTwin, Void)

SpecCopy == InitCopy /\ [][NextCopy]_vars

\* What an object holds, read off its representation: the elements of a
\* Stack, LinkedListStack, Queue or List from the top or the front, the
\* entries of a map, the elements of a TreeSet.
RefOf(cls, x) ==
    CASE cls = "Stack" -> RefStack(x)
      [] cls = "LinkedListStack" -> RefElems(x.node, x._top)
      [] cls \in {"Queue", "List"} -> RefElems(x.node, x._first)
      [] cls = "HashMap" -> RefEntries(x)
      [] cls = "TreeMap" -> RefTreeEntries(x)
      [] cls = "TreeSet" -> RefTreeSet(x)

SingleCells == 1..MaxSingleCells

\* Node *copy_nodes(Node *start_node) const: the new node is allocated, then
\* the copy of the rest is linked behind it.
RECURSIVE ListLinkedSingle_copy_nodes(_, _)
ListLinkedSingle_copy_nodes(node, start_node) ==
    IF start_node = nullptr THEN [node |-> node, result |-> nullptr]
    ELSE LET result == newCell(node)
             n1 == [node EXCEPT ![result] = [alloc |-> TRUE,
                                             _value |-> node[start_node]._value,
                                             _next |-> nullptr]]
             others == ListLinkedSingle_copy_nodes(n1, node[start_node]._next)
         IN  [node |-> [others.node EXCEPT ![result]._next = others.result],
              result |-> result]

\* void delete_list(Node *start_node)
RECURSIVE ListLinkedSingle_delete_list(_, _)
ListLinkedSingle_delete_list(node, start_node) ==
    IF start_node = nullptr THEN node
    ELSE [ListLinkedSingle_delete_list(node, node[start_node]._next)
             EXCEPT ![start_node] = NoSingleCell]

\* The loop of nth_node.
RECURSIVE ListLinkedSingle_nth_nodeLoop(_, _, _, _)
ListLinkedSingle_nth_nodeLoop(node, current_index, current, n) ==
    IF current_index < n /\ current # nullptr
    THEN ListLinkedSingle_nth_nodeLoop(node, current_index + 1, node[current]._next, n)
    ELSE current

\* Node *nth_node(int n) const
ListLinkedSingle_nth_node(s, n) ==
    IF ~(0 <= n) THEN Throw("abort")
    ELSE Returned(ListLinkedSingle_nth_nodeLoop(s.node, 0, s.node[s._head]._next, n))

\* ListLinkedSingle(const ListLinkedSingle &other): _head(copy_nodes(other._head)),
\* then _tail = nth_node(other.size()-1). When the assertion of nth_node
\* fails the program ends and the object never exists.
ListLinkedSingle_copyConstruct(other) ==
    LET c == ListLinkedSingle_copy_nodes(other.node, other._head)
        this == [alive |-> TRUE, node |-> c.node, _head |-> c.result, _tail |-> nullptr]
        n == ListLinkedSingle_nth_node(this, ListLinkedSingle_observers(other).size.value - 1)
    IN  IF n.exit # "return" THEN Out([alive |-> FALSE], n, "assert")
        ELSE Out([this EXCEPT !._tail = n.value], Void, "none")

\* ListLinkedSingle<T> &operator=(const ListLinkedSingle<T> &other), for
\* this != &other: _tail is set only when other is not empty.
ListLinkedSingle_assign(this, other) ==
    LET n1 == ListLinkedSingle_delete_list(this.node, this.node[this._head]._next)
        c == ListLinkedSingle_copy_nodes(n1, other.node[other._head]._next)
        t1 == [this EXCEPT !.node = [c.node EXCEPT ![this._head]._next = c.result]]
        n == ListLinkedSingle_nth_node(t1, ListLinkedSingle_observers(other).size.value - 1)
    IN  IF ListLinkedSingle_observers(other).empty.value THEN Out(t1, Void, "none")
        ELSE IF n.exit # "return" THEN Out(t1, n, "assert")
        ELSE Out([t1 EXCEPT !._tail = n.value], Void, "none")

\* The nodes of a list, the phantom node first.
ListLinkedSingle_nodes(s) ==
    LET ch == RefChain(s.node, s._head, MaxSingleCells + 1)
    IN  {ch[i] : i \in 1..Len(ch)}

\* void push_back(const T &_elem) on a list whose _tail may be the address of
\* a deleted node: then _tail->_next = new_node writes through a dangling
\* pointer, and the build either ends the program there, or lets the write
\* land in memory that is free (and lost), or in the node of another object
\* that lives at that address by now, or in the new node itself when
\* operator new hands the deleted address out again.
ListLinkedSingle_push_backOutcomes(s, e) ==
    IF s._tail \in ListLinkedSingle_nodes(s) THEN {ListLinkedSingle_push_back(s, e)}
    ELSE {Out(s, Throw("abort"), "dangling")}
         \cup {Out([s EXCEPT !.node =
                        [c \in SingleCells |->
                           IF c = new_node
                           THEN [alloc |-> TRUE, _value |-> e,
                                 _next |-> IF new_node = s._tail THEN new_node ELSE nullptr]
                           ELSE IF c = s._tail /\ s.node[c].alloc
                           THEN [s.node[c] EXCEPT !._next = new_node]
                           ELSE s.node[c]],
                             !._tail = new_node],
                   Void, "dangling") :
                new_node \in {newCell(s.node)}
                             \cup (IF s.node[s._tail].alloc THEN {} ELSE {s._tail})}

\* ------------------------------------------------------------------ programs of two ListLinkedSingle
\* The program has a list a (slist) and makes a second list b (twin) from it
\* by copy construction; the nodes of both are in one memory.
SingleFree(s) == Cardinality({c \in SingleCells : ~s.node[c].alloc})
SingleSize(s) == ListLinkedSingle_observers(s).size.value
SingleShared(x, y) == IF x.alive /\ y.alive THEN [x EXCEPT !.node = y.node] ELSE x

SingleStep(name, arg, a2, b2, r, f) ==
    /\ PeerCall(name, arg, Out(a2, r, f))
    /\ slist' = a2
    /\ twin' = b2
    /\ UNCHANGED <<stack, lstack, queue, list, map, tmap, tset, iter>>

InitSingleCopy ==
    /\ heap = [n \in Addrs |-> NoNode]
    /\ fault = "none"
    /\ live = [h \in Handles |-> FALSE]
    /\ _root = [h \in Handles |-> nullptr]
    /\ last = [op |-> "main", h |-> 0, cmp |-> 0, was |-> <<nullptr, nullptr, nullptr>>]
    /\ ret = Void
    /\ cin = NoInput
    /\ smart = NoSmart
    /\ stack = NoStack /\ lstack = NoLinkedListStack /\ queue = NoQueue
    /\ list = NoList /\ map = NoHashMap
    /\ NoRest
    /\ \E junk \in Tokens :
          slist = [alive |-> TRUE,
                   node |-> [c \in SingleCells |->
                               IF c = 1 THEN [alloc |-> TRUE, _value |-> junk, _next |-> nullptr]
                               ELSE NoSingleCell],
                   _head |-> 1, _tail |-> 1]

NextSingleCopy ==
    LET a == slist
        b == twin
    IN  \/ \E e \in Elems :
             /\ SingleSize(a) < MaxSingleLen /\ SingleFree(a) > 0
             /\ LET a2 == ListLinkedSingle_push_back(a, e).obj
                IN  SingleStep("a.push_back", e, a2, SingleShared(b, a2), Void, "none")
        \/ LET o == ListLinkedSingle_pop_front(a)
           IN  SingleStep("a.pop_front", 0, o.obj, SingleShared(b, o.obj), o.ret, o.fault)
        \/ /\ ~b.alive /\ SingleFree(a) > SingleSize(a)
           /\ LET o == ListLinkedSingle_copyConstruct(a)
              IN  SingleStep("b(a)", 0, SingleShared(a, o.obj), o.obj, o.ret, o.fault)
        \/ /\ b.alive /\ SingleFree(a) + SingleSize(b) >= SingleSize(a)
           /\ LET o == ListLinkedSingle_assign(b, a)
              IN  SingleStep("b = a", 0, SingleShared(a, o.obj), o.obj, o.ret, o.fault)
        \/ \E e \in Elems :
             /\ b.alive /\ SingleSize(b) <= MaxSingleLen /\ SingleFree(b) > 0
             /\ \E o \in ListLinkedSingle_push_backOutcomes(b, e) :
                   SingleStep("b.push_back", e, SingleShared(a, o.obj), o.obj, o.ret, o.fault)
        \/ /\ b.alive
           /\ LET o == ListLinkedSingle_pop_front(b)
              IN  SingleStep("b.pop_front", 0, SingleShared(a, o.obj), o.obj, o.ret, o.fault)
        \/ /\ b.alive
           /\ LET n1 == ListLinkedSingle_delete_list(b.node, b._head)
              IN  SingleStep("~b", 0, [a EXCEPT !.node = n1], NoTwin, Void, "none")

SpecSingleCopy == InitSingleCopy /\ [][NextSingleCopy]_vars

\* The elements of a ListLinkedSingle, first to last, read off its nodes.
RefSingle(s) ==
    LET ch == RefChain(s.node, s.node[s._head]._next, MaxSingleCells + 1)
    IN  [i \in 1..Len(ch) |-> s.node[ch[i]]._value]

\* C30: copy construction of b from a, and b = a, complete without failure
\* for every a and b, empty or not, and leave b with exactly a's elements in
\* a's order (a itself unchanged); a push_back on b then appends the element
\* at the end of b.
C30_CopyOfEveryList ==
    [][/\ last'.op \in {"b(a)", "b = a"} =>
            /\ ret'.exit = "return" /\ fault' = "none"
            /\ twin'.alive
            /\ RefSingle(twin') = RefSingle(slist)
            /\ RefSingle(slist') = RefSingle(slist)
       /\ (last'.op = "b.push_back" /\ last.op \in {"b(a)", "b = a"}) =>
            /\ ret'.exit = "return" /\ fault' = "none"
            /\ RefSingle(twin') = Append(RefSingle(twin), last'.cmp)
            /\ RefSingle(slist') = RefSingle(slist)]_vars

\* C31: at every operation boundary no assertion of addRef or rmRef has
\* failed, and every allocated node n has _refs equal to the number of live
\* objects whose _root is n plus the number of _left links plus the number of
\* _right links from allocated nodes to n, which is at least 1.
C31_RefsAreExact ==
    /\ fault # "assert"
    /\ \A n \in Addrs :
          heap[n].alloc =>
              /\ heap[n]._refs = Cardinality({h \in Handles : live[h] /\ _root[h] = n})
                                 + Cardinality({k \in Addrs : heap[k].alloc /\ heap[k]._left = n})
                                 + Cardinality({k \in Addrs : heap[k].alloc /\ heap[k]._right = n})
              /\ heap[n]._refs >= 1

\* A node is the left and the right child of one node and the root of an
\* object as well (count 3), after another object of that root was destroyed.
C31_Witness ==
    /\ last.op = "~BinTree" /\ last.was[1] # nullptr
    /\ \E n, k \in Addrs, h \in Handles :
          /\ heap[n].alloc /\ heap[k].alloc
          /\ heap[k]._left = n /\ heap[k]._right = n
          /\ live[h] /\ _root[h] = n /\ last.was[1] = n
          /\ heap[n]._refs = 3

\* The keys below root are in search order: below every node the keys of
\* its left subtree are smaller and those of its right subtree greater than
\* its own key (key maps a node to its key), and no two nodes have one key.
SearchOrder(node, root, key) ==
    LET nodes == RefTreeNodes(node, root, MaxKey + 1)
    IN  /\ \A c \in nodes :
              /\ \A l \in RefTreeNodes(node, node[c]._left, MaxKey + 1) : key[l] < key[c]
              /\ \A r \in RefTreeNodes(node, node[c]._right, MaxKey + 1) : key[c] < key[r]
        /\ \A c, d \in nodes : c # d => key[c] # key[d]

\* C32: after every call (insert, erase and operator[] among them) the nodes
\* of a TreeMap and of a TreeSet are in binary-search-tree order: all keys of
\* a left subtree strictly smaller, all keys of a right subtree strictly
\* greater than the key of the node above, and no key twice.
C32_SearchTreeOrder ==
    /\ tmap.alive => SearchOrder(tmap.node, tmap._root, [c \in TreeCells |-> tmap.node[c]._key])
    /\ tset.alive => SearchOrder(tset.node, tset._root, [c \in TreeCells |-> tset.node[c]._elem])

\* erase has removed a node that had two children from a TreeMap that still
\* has a root with two children.
C32_Witness ==
    /\ tmap.alive /\ last.op = "erase"
    /\ last.was[1] # nullptr /\ last.was[2] # nullptr /\ last.was[3] # nullptr
    /\ tmap._root # nullptr
    /\ tmap.node[tmap._root]._left # nullptr /\ tmap.node[tmap._root]._right # nullptr

\* ------------------------------------------------------------------ programs that erase from a search tree
\* The program has one TreeMap or one TreeSet over the keys 1..MaxEraseKey
\* and calls insert and erase on it (the value of a key in the TreeMap is
\* given by the key).
EraseKeys == 1..MaxEraseKey

InitErase ==
    /\ heap = [n \in Addrs |-> NoNode]
    /\ fault = "none"
    /\ live = [h \in Handles |-> FALSE]
    /\ _root = [h \in Handles |-> nullptr]
    /\ last = [op |-> "main", h |-> 0, cmp |-> <<0>>, was |-> NoWas]
    /\ ret = Void
    /\ cin = NoInput
    /\ smart = NoSmart
    /\ stack = NoStack /\ lstack = NoLinkedListStack /\ queue = NoQueue
    /\ list = NoList /\ slist = NoListLinkedSingle /\ map = NoHashMap
    /\ iter = NoIter /\ twin = NoTwin
    /\ \/ /\ tmap = [TreeMap_init EXCEPT !.node = [c \in EraseKeys |-> NoTreeMapCell]]
          /\ tset = NoTreeSet
       \/ /\ tmap = NoTreeMap
          /\ tset = [TreeSet_init EXCEPT !.node = [c \in EraseKeys |-> NoTreeSetCell]]

NextErase ==
    \/ \E key \in EraseKeys :
         TreeMapCall("insert", <<key, key % (MaxVal + 1)>>,
                     TreeMap_insert(tmap, key, key % (MaxVal + 1)))
    \/ \E key \in EraseKeys : TreeMapCall("erase", <<key>>, TreeMap_erase(tmap, key))
    \/ \E e \in EraseKeys : TreeSetCall("insert", <<e>>, TreeSet_insert(tset, e))
    \/ \E e \in EraseKeys : TreeSetCall("erase", <<e>>, TreeSet_erase(tset, e))

SpecErase == InitErase /\ [][NextErase]_vars

\* The tree below p as a value: <<>> for nullptr, <<left, p, right>> for node p.
RECURSIVE RefShape(_, _, _)
RefShape(node, p, fuel) ==
    IF p = nullptr \/ fuel = 0 THEN <<>>
    ELSE <<RefShape(node, node[p]._left, fuel - 1), p, RefShape(node, node[p]._right, fuel - 1)>>

\* The leftmost node of a tree value that is not empty, and the tree value
\* with that node replaced by its right subtree.
RECURSIVE ShapeMin(_)
ShapeMin(t) == IF t[1] = <<>> THEN t[2] ELSE ShapeMin(t[1])

RECURSIVE ShapeWithoutMin(_)
ShapeWithoutMin(t) == IF t[1] = <<>> THEN t[3] ELSE <<ShapeWithoutMin(t[1]), t[2], t[3]>>

\* What a subtree becomes when its root is erased.
ShapeWithoutRoot(t) ==
    IF t[1] = <<>> THEN t[3]
    ELSE IF t[3] = <<>> THEN t[1]
    ELSE <<t[1], ShapeMin(t[3]), ShapeWithoutMin(t[3])>>

\* The tree value t with the subtree whose root is node p erased at its root.
RECURSIVE ShapeErasedAt(_, _)
ShapeErasedAt(t, p) ==
    IF t = <<>> THEN <<>>
    ELSE IF t[2] = p THEN ShapeWithoutRoot(t)
    ELSE <<ShapeErasedAt(t[1], p), t[2], ShapeErasedAt(t[3], p)>>

\* The step erased node p of tree x (x2 afterwards): p is deleted, every
\* other node is allocated as before, and the links are those of the tree
\* with p erased.
ErasedByPromotion(x, x2, p) ==
    /\ ~x2.node[p].alloc
    /\ \A c \in DOMAIN x.node \ {p} : x2.node[c].alloc = x.node[c].alloc
    /\ RefShape(x2.node, x2._root, MaxEraseKey + 1)
          = ShapeErasedAt(RefShape(x.node, x._root, MaxEraseKey + 1), p)

\* C33: erase of a key held by node p with two children puts the in-order
\* successor s (the leftmost node of p's right subtree) in p's place, with
\* p's left subtree as its left child, and s's former right subtree where s
\* was; erase of a node with one child or none puts that child (or nothing)
\* in its place; every other node keeps its children and its key, and p is
\* deleted.  The same for TreeMap and TreeSet.
C33_EraseBySuccessor ==
    [][(last'.op = "erase" /\ last'.was[1] # nullptr) =>
          /\ tmap.alive =>
                /\ ErasedByPromotion(tmap, tmap', last'.was[1])
                /\ \A c \in EraseKeys \ {last'.was[1]} :
                      /\ tmap'.node[c]._key = tmap.node[c]._key
                      /\ tmap'.node[c]._value = tmap.node[c]._value
          /\ tset.alive =>
                /\ ErasedByPromotion(tset, tset', last'.was[1])
                /\ \A c \in EraseKeys \ {last'.was[1]} :
                      tset'.node[c]._elem = tset.node[c]._elem]_vars

\* erase(2) on the TreeMap 2 (1) (5 (3 (.) (4)) (.)): node 3, the successor,
\* is the root now, with 1 on its left and 5 on its right, and 4, its former
\* right child, is the left child of 5.
C33_Witness ==
    /\ tmap.alive /\ last.op = "erase" /\ last.cmp = <<2>>
    /\ last.was = <<2, 1, 5>>
    /\ RefShape(tmap.node, tmap._root, MaxEraseKey + 1)
          = <<<<<<>>, 1, <<>>>>, 3, <<<<<<>>, 4, <<>>>>, 5, <<>>>>>>

\* ------------------------------------------------------------------ programs that search a tree
\* The program of SpecErase with an iterator that find() returns and next()
\* advances; the tree does not change while the iterator is alive.
FindCall(name, arg, it) ==
    /\ TreeCall(name, arg, NoWas, it)
    /\ iter' = it.obj
    /\ UNCHANGED <<tmap, tset>>

NextFind ==
    \/ ~iter.alive /\ NextErase
    \/ \E key \in EraseKeys :
         /\ tmap.alive /\ ~iter.alive
         /\ FindCall("find", <<key>>, Out(TreeMap_find(tmap, key), Void, "none"))
    \/ \E e \in EraseKeys :
         /\ tset.alive /\ ~iter.alive
         /\ FindCall("find", <<e>>, Out(TreeSet_find(tset, e), Void, "none"))
    \/ /\ iter.alive
       /\ FindCall("next", <<0>>, Tree_next(IF tmap.alive THEN tmap.node ELSE tset.node, iter))
    \/ iter.alive /\ FindCall("~Iterator", <<0>>, Out(NoIter, Void, "none"))

SpecFind == InitErase /\ [][NextFind]_vars

\* The ancestors of node c below p whose left subtree holds c, the nearest
\* first: the nodes an in-order traversal visits after the subtree of c.
RECURSIVE RefPending(_, _, _)
RefPending(node, p, c) ==
    IF p = c \/ p = nullptr THEN <<>>
    ELSE IF c \in RefTreeNodes(node, node[p]._left, MaxEraseKey + 1)
    THEN RefPending(node, node[p]._left, c) \o <<p>>
    ELSE RefPending(node, node[p]._right, c)

\* The iterator it, returned by find(k) on a tree with these nodes and keys
\* (key maps a node to its key).
FoundAt(node, root, key, k, it) ==
    LET nodes == RefTreeNodes(node, root, MaxEraseKey + 1)
        walk == IterateFrom(node, it, MaxEraseKey + 2)
    IN  IF k \in {key[c] : c \in nodes}
        THEN /\ it._current \in nodes /\ key[it._current] = k
             /\ RefStack(it._ancestors) = RefPending(node, root, it._current)
             /\ Ascending([i \in 1..Len(walk) |-> key[walk[i]]],
                          {key[c] : c \in {d \in nodes : key[d] >= k}})
             /\ IterateFrom(node, it, Len(walk) + 1) = walk
        ELSE it._current = Tree_Iterator(node, nullptr, FALSE)._current

\* C34: find(k) on a TreeMap or TreeSet that holds k returns an iterator on
\* the node of k whose stack holds exactly the ancestors entered through
\* their left child, nearest on top, so that next() until end() visits the
\* keys >= k, each once, in ascending order, and then stops; when k is not
\* held the iterator equals end() (_current is nullptr).
C34_FindPositionsIterator ==
    [][last'.op = "find" =>
          /\ tmap.alive => FoundAt(tmap.node, tmap._root,
                                   [c \in EraseKeys |-> tmap.node[c]._key], last'.cmp[1], iter')
          /\ tset.alive => FoundAt(tset.node, tset._root,
                                   [c \in EraseKeys |-> tset.node[c]._elem], last'.cmp[1], iter')]_vars

\* find(2) on the TreeMap 5 (3 (1 (.) (2)) (4)) (.): the iterator is on 2,
\* entered through the right child of 1, with 3 on top of 5 on its stack; two
\* calls of next() later it is on 4.
C34_Witness ==
    /\ tmap.alive /\ iter.alive /\ last.op = "next"
    /\ RefShape(tmap.node, tmap._root, MaxEraseKey + 1)
          = <<<<<<<<>>, 1, <<<<>>, 2, <<>>>>>>, 3, <<<<>>, 4, <<>>>>>>, 5, <<>>>>
    /\ iter._current = 4
    /\ RefStack(iter._ancestors) = <<5>>

\* ------------------------------------------------------------------ programs that walk a HashMap
\* The keys of the map that is walked: 0 and 8 share the first of 8 bins, 7
\* and 15 the last one; of 16 bins, 15 has the last one to itself.
WalkKeys == {0, 3, 7, 8, 15}

\* The map after insert(k, 0) for the keys 0..n - 1, and after erase(k) for them.
RECURSIVE WalkFilled(_)
WalkFilled(n) == IF n = 0 THEN HashMap_init ELSE HashMap_insert(WalkFilled(n - 1), n - 1, 0).obj

RECURSIVE WalkEmptied(_, _)
WalkEmptied(mp, n) == IF n = 0 THEN mp ELSE HashMap_erase(WalkEmptied(mp, n - 1), n - 1).obj

\* The program starts with a HashMap that is freshly constructed, or with one
\* that has held INITIAL_BIN_COUNT entries, which made it grow, and is empty again.
InitWalk ==
    /\ heap = [n \in Addrs |-> NoNode]
    /\ fault = "none"
    /\ live = [h \in Handles |-> FALSE]
    /\ _root = [h \in Handles |-> nullptr]
    /\ last = [op |-> "main", h |-> 0, cmp |-> 0, was |-> <<nullptr, nullptr, nullptr>>]
    /\ ret = Void
    /\ cin = NoInput
    /\ smart = NoSmart
    /\ stack = NoStack /\ lstack = NoLinkedListStack /\ queue = NoQueue
    /\ list = NoList /\ slist = NoListLinkedSingle
    /\ NoRest
    /\ map \in {HashMap_init, WalkEmptied(WalkFilled(INITIAL_BIN_COUNT), INITIAL_BIN_COUNT)}

\* The program has one HashMap<int, int> and at most one iterator on it; the
\* map does not change while the iterator is alive.
NextWalk ==
    \/ \E key \in WalkKeys :
         /\ ~iter.alive
         /\ HashMapStep("insert", key, HashMap_insert(map, key, 0).obj, iter, Void)
    \/ \E key \in WalkKeys :
         ~iter.alive /\ HashMapStep("erase", key, HashMap_erase(map, key).obj, iter, Void)
    \/ \E konst \in BOOLEAN :
         /\ ~iter.alive
         /\ HashMapStep(IF konst THEN "cbegin" ELSE "begin", 0, map, HashMap_begin(map, konst), Void)
    \/ \E name \in {"next", "operator++"} :
         /\ iter.alive
         /\ HashMapStep(name, 0, map, HashMap_Iterator_next(map, iter).obj,
                        HashMap_Iterator_next(map, iter).ret)
    \/ iter.alive /\ HashMapStep("~Iterator", 0, map, NoIter, Void)

SpecWalk == InitWalk /\ [][NextWalk]_vars

\* The nodes of the bins i - 1 and above, bin by bin, head of a bin first.
RECURSIVE RefBucketOrder(_, _)
RefBucketOrder(mp, i) ==
    IF i > mp._binCount THEN <<>> ELSE RefBin(mp, i) \o RefBucketOrder(mp, i + 1)

\* The loop  for (; it != end(); it.next()): the nodes it visits, in the
\* order of the visits, cut off after fuel visits.
RECURSIVE WalkFrom(_, _, _)
WalkFrom(mp, it, fuel) ==
    IF it._current = HashMap_end(mp, it.konst)._current \/ fuel = 0 THEN <<>>
    ELSE <<it._current>> \o WalkFrom(mp, HashMap_Iterator_next(mp, it).obj, fuel - 1)

\* C35: the loop from begin() or cbegin() by next() until the iterator equals
\* end() or cend() ends after as many visits as the map has entries and
\* visits every linked node once: the nodes of bin 0 in chain order, then
\* those of bin 1, and so on to the last bin; on an empty map begin() equals
\* end() at once.
C35_WalkInBucketOrder ==
    [][last'.op \in {"begin", "cbegin"} =>
          LET walk == WalkFrom(map, iter', Cardinality(MapCells) + 1)
          IN  /\ walk = RefBucketOrder(map, 1)
              /\ Len(walk) = map._entryCount
              /\ Cardinality({walk[i] : i \in 1..Len(walk)}) = Len(walk)
              /\ {<<map.node[walk[i]]._key, map.node[walk[i]]._value>> : i \in 1..Len(walk)}
                    = RefEntries(map)
              /\ map._entryCount = 0 => iter'._current = HashMap_end(map, iter'.konst)._current]_vars

\* The only entries of the map, 7 and 15, are in the last of 8 bins, and the
\* iterator has stepped from the first of them to the second.
C35_Witness ==
    /\ map.alive /\ iter.alive /\ last.op = "next"
    /\ map._binCount = INITIAL_BIN_COUNT
    /\ RefKeys(map) = {7, 15}
    /\ iter._idx = INITIAL_BIN_COUNT - 1
    /\ iter._current = RefBin(map, INITIAL_BIN_COUNT)[2]

\* ------------------------------------------- programs that edit a List
\* One List and at most one Iterator of it. insert takes its iterator by
\* const reference and leaves it on its element; erase invalidates the one it
\* is given, so the program keeps the one erase returns. pop_front and
\* pop_back run only while no iterator is alive. The list holds at most
\* MaxEditLen elements.
NextEdit ==
    \/ \E e \in Elems :
         /\ list._size < MaxEditLen
         /\ ListStep("push_front", e, List_push_front(list, e).obj, iter, Void)
    \/ \E e \in Elems :
         /\ list._size < MaxEditLen
         /\ ListStep("push_back", e, List_push_back(list, e).obj, iter, Void)
    \/ ~iter.alive /\ ListStep("pop_front", 0, List_pop_front(list).obj, iter, List_pop_front(list).ret)
    \/ ~iter.alive /\ ListStep("pop_back", 0, List_pop_back(list).obj, iter, List_pop_back(list).ret)
    \/ ~iter.alive /\ ListStep("begin", 0, list, Iterator(list._first, 0, FALSE), Void)
    \/ ~iter.alive /\ ListStep("end", 0, list, Iterator(nullptr, 0, FALSE), Void)
    \/ /\ iter.alive
       /\ ListStep("next", 0, list, List_Iterator_next(list, iter).obj,
                   List_Iterator_next(list, iter).ret)
    \/ \E e \in Elems :
         /\ iter.alive /\ list._size < MaxEditLen
         /\ ListStep("List::insert", e, List_insert(list, e, iter).obj, iter, Void)
    \/ /\ iter.alive
       /\ LET r == List_erase(list, iter) IN ListStep("List::erase", 0, r.obj, r.it, r.ret)
    \/ iter.alive /\ ListStep("~Iterator", 0, list, NoIter, Void)

InitEdit == InitPeers /\ list.alive

SpecEdit == InitEdit /\ [][NextEdit]_vars

\* The sequence a List stands for, the position (from 1) of an iterator in
\* it (one past the end for end()), and the reference operations on
\* sequences.
RefList(l) == RefElems(l.node, l._first)

RefPos(l, it) ==
    LET chain == RefChain(l.node, l._first, Cardinality(DOMAIN l.node) + 1)
    IN  IF it._current = nullptr THEN Len(chain) + 1
        ELSE CHOOSE i \in 1..Len(chain) : chain[i] = it._current

RefInsertAt(s, e, pos) == SubSeq(s, 1, pos - 1) \o <<e>> \o SubSeq(s, pos, Len(s))

RefEraseAt(s, pos) == SubSeq(s, 1, pos - 1) \o SubSeq(s, pos + 1, Len(s))

\* The elements met by an iterator that starts at it and is advanced with
\* next() until it equals end().
RECURSIVE ListWalk(_, _, _)
ListWalk(l, it, fuel) ==
    IF it._current = nullptr \/ fuel = 0 THEN <<>>
    ELSE <<List_Iterator_observers(l, it).elem.value>>
           \o ListWalk(l, List_Iterator_next(l, it).obj, fuel - 1)

\* What front(), back(), size(), at(i) and a walk from begin() answer on l
\* is what the sequence s answers.
ObservedAs(l, s) ==
    /\ List_observers(l).size = Returned(Len(s))
    /\ List_observers(l).empty = Returned(s = <<>>)
    /\ List_observers(l).front
          = IF s = <<>> THEN Throw("EmptyListException") ELSE Returned(s[1])
    /\ List_observers(l).back
          = IF s = <<>> THEN Throw("EmptyListException") ELSE Returned(s[Len(s)])
    /\ \A i \in 0..MaxCells :
          List_at(l, i) = IF i < Len(s) THEN Returned(s[i + 1])
                          ELSE Throw("InvalidAccessException")
    /\ ListWalk(l, Iterator(l._first, 0, FALSE), Cardinality(Cells) + 1) = s

\* C36: List refines a sequence. Every push_front, push_back, pop_front,
\* pop_back, insert(elem, it) and erase(it) changes the sequence of the list
\* as the reference operation does, and afterwards front(), back(), at(i),
\* size() and a forward iteration answer what the sequence answers. insert
\* puts the element immediately before the iterator's element (at the end for
\* end()) and leaves the iterator on its element; erase removes the
\* iterator's element and returns an iterator on the element that followed
\* it, end() when it was the last.
C36_ListRefinesSequence ==
    [][LET s == RefList(list)
           s2 == RefList(list')
           pos == RefPos(list, iter)
           e == last'.cmp
       IN  /\ ObservedAs(list', s2)
           /\ last'.op = "push_front" => s2 = <<e>> \o s
           /\ last'.op = "push_back" => s2 = Append(s, e)
           /\ last'.op = "pop_front" =>
                 IF s = <<>> THEN s2 = s /\ ret' = Throw("EmptyListException")
                 ELSE s2 = Tail(s) /\ ret' = Void
           /\ last'.op = "pop_back" =>
                 IF s = <<>> THEN s2 = s /\ ret' = Throw("EmptyListException")
                 ELSE s2 = SubSeq(s, 1, Len(s) - 1) /\ ret' = Void
           /\ last'.op = "List::insert" =>
                 /\ s2 = RefInsertAt(s, e, pos)
                 /\ iter' = iter
                 /\ RefPos(list', iter') = pos + 1
           /\ last'.op = "List::erase" =>
                 IF pos = Len(s) + 1
                 THEN s2 = s /\ ret' = Throw("InvalidAccessException")
                 ELSE /\ s2 = RefEraseAt(s, pos)
                      /\ ret' = Void
                      /\ RefPos(list', iter') = pos
                      /\ (pos = Len(s)) = (iter'._current = nullptr)
                      /\ iter'._current # nullptr =>
                            list'.node[iter'._current]._elem = s[pos + 1]
           /\ last'.op \in {"begin", "end", "next", "~Iterator"} => s2 = s]_vars

\* insert(2, it) with it on the second element of 1 1 has run: the list is
\* 1 2 1 and it is on the third element.
C36_Witness ==
    /\ list.alive /\ iter.alive
    /\ last.op = "List::insert" /\ last.cmp = 2
    /\ RefList(list) = <<1, 2, 1>>
    /\ RefPos(list, iter) = 3

\* C37: the structure of a List. _first is null exactly when _last is null
\* and exactly when size() is 0; _first has no predecessor and _last no
\* successor; the predecessor of the successor of every node is that node;
\* size() is the number of nodes reachable from _first, which are distinct
\* allocated nodes ending in _last and are all the nodes there are.
C37_ListStructure ==
    list.alive =>
       LET chain == RefChain(list.node, list._first, Cardinality(Cells) + 1)
           nodes == {chain[i] : i \in 1..Len(chain)}
       IN  /\ (list._first = nullptr) = (list._last = nullptr)
           /\ (list._first = nullptr) = (List_observers(list).size = Returned(0))
           /\ list._first # nullptr =>
                 /\ list.node[list._first]._prev = nullptr
                 /\ list.node[list._last]._next = nullptr
                 /\ chain[Len(chain)] = list._last
           /\ \A n \in nodes :
                 list.node[n]._next # nullptr =>
                    list.node[list.node[n]._next]._prev = n
           /\ List_observers(list).size = Returned(Len(chain))
           /\ Cardinality(nodes) = Len(chain)
           /\ nodes = {c \in Cells : list.node[c].alloc}

\* erase has removed the node between two others: the list is 1 2 and the
\* iterator erase returned is on the second element.
C37_Witness ==
    /\ list.alive /\ iter.alive
    /\ last.op = "List::erase" /\ ret = Void
    /\ RefList(list) = <<1, 2>>
    /\ RefPos(list, iter) = 2

\* _tail of s is the last node reachable from _head, a node that has not
\* been deleted.
TailIsLast(s) ==
    LET ch == RefChain(s.node, s._head, MaxSingleCells + 1)
    IN  /\ s.node[s._tail].alloc
        /\ s.node[s._tail]._next = nullptr
        /\ ch[Len(ch)] = s._tail

\* C38: the tail of a ListLinkedSingle. After construction, copy
\* construction, assignment, push_front, push_back, pop_front and pop_back,
\* _tail of every list that exists is the last node reachable from its _head
\* (the phantom node when the list is empty) and never a deleted node.
C38_TailIsLastNode ==
    /\ slist.alive => TailIsLast(slist)
    /\ twin.alive => TailIsLast(twin)

\* b = a has run with a empty and b not: b is empty and its _tail is not one
\* of its nodes.
C38_DanglingTail ==
    /\ slist.alive /\ twin.alive /\ fault = "none"
    /\ last.op = "b = a"
    /\ RefSingle(slist) = <<>> /\ RefSingle(twin) = <<>>
    /\ twin._tail # twin._head
    /\ twin._tail \notin ListLinkedSingle_nodes(twin)

\* C39: the load of a HashMap. After any sequence of insert, erase and
\* operator[], _entryCount is at most floor(0.8 * _binCount) + 1, so there are
\* never more entries than bins; _entryCount is the number of nodes linked
\* in the bins.
C39_LoadBound ==
    map.alive =>
       /\ map._entryCount <= (MAX_OCCUPATION * map._binCount) \div 100 + 1
       /\ map._entryCount <= map._binCount
       /\ map._entryCount = Cardinality(RefEntries(map))

\* The bound is met: insert has put a seventh entry in a table of 8 bins.
C39_Witness ==
    /\ map.alive /\ last.op = "insert"
    /\ map._binCount = INITIAL_BIN_COUNT
    /\ map._entryCount = (MAX_OCCUPATION * INITIAL_BIN_COUNT) \div 100 + 1
    /\ Cardinality(RefKeys(map)) = 7

====
